---------------------------- MODULE Spec2Model ----------------------------
(***************************************************************************)
(* Model of the cleanup_toolkit package: PatternMatcher and CodeAnalyzer   *)
(* (analyzers.py), CleanupConfig and CleanupEngine (core.py) and           *)
(* CleanupCommand (commands.py).                                           *)
(*                                                                         *)
(* Text (file content, paths, lines) is a sequence of one-character        *)
(* strings.  Pattern texts are kept as the strings of the source; compile  *)
(* gives the regular expression a pattern text denotes as a sequence of    *)
(* atoms, and search / match evaluate it on a line.                        *)
(***************************************************************************)
EXTENDS Integers, Sequences, FiniteSets, TLC

\* Python's None (falsy), used for an absent optional argument.
None == "<None>"

\* ------------------------------------------------------------------------
\* Characters and strings
\* ------------------------------------------------------------------------

UpperChars == <<"A", "B", "C", "D", "E", "F", "G", "H", "I", "J", "K", "L", "M",
                "N", "O", "P", "Q", "R", "S", "T", "U", "V", "W", "X", "Y", "Z">>

LowerChars == <<"a", "b", "c", "d", "e", "f", "g", "h", "i", "j", "k", "l", "m",
                "n", "o", "p", "q", "r", "s", "t", "u", "v", "w", "x", "y", "z">>

\* str.lower() on one character.
lower_char(c) ==
    LET I == {i \in 1..Len(UpperChars) : UpperChars[i] = c}
    IN  IF I = {} THEN c ELSE LowerChars[CHOOSE i \in I : TRUE]

\* str.lower().
lower(s) == [i \in 1..Len(s) |-> lower_char(s[i])]

\* Characters str.strip() removes and the regular expression \s matches.
IsSpace(c) == c \in {" ", "\t", "\n", "\r"}

\* Characters at which str.splitlines() breaks a line.
IsLineBreak(c) == c \in {"\n", "\r"}

\* str.startswith at position i (1-based): s[i-1:].startswith(w).
StartsAt(s, i, w) ==
    /\ i + Len(w) - 1 <= Len(s)
    /\ \A j \in 1..Len(w) : s[i + j - 1] = w[j]

\* str.endswith.
endswith(s, w) ==
    /\ Len(w) <= Len(s)
    /\ StartsAt(s, Len(s) - Len(w) + 1, w)

\* The substring test `w in s`.
contains(s, w) == \E i \in 1..(Len(s) + 1) : StartsAt(s, i, w)

\* str.strip(): drop leading and trailing whitespace.
strip(s) ==
    IF \A i \in 1..Len(s) : IsSpace(s[i])
    THEN << >>
    ELSE LET a == CHOOSE i \in 1..Len(s) :
                      /\ ~IsSpace(s[i])
                      /\ \A j \in 1..(i - 1) : IsSpace(s[j])
             b == CHOOSE i \in 1..Len(s) :
                      /\ ~IsSpace(s[i])
                      /\ \A j \in (i + 1)..Len(s) : IsSpace(s[j])
         IN  SubSeq(s, a, b)

\* str.splitlines(): lines end at "\n", "\r" or "\r\n"; a final line break
\* does not open an empty last line; the empty string has no lines.
RECURSIVE SplitFrom(_, _, _)
SplitFrom(s, i, cur) ==
    IF i > Len(s)
    THEN IF cur = << >> THEN << >> ELSE << cur >>
    ELSE IF s[i] = "\r" /\ i < Len(s) /\ s[i + 1] = "\n"
         THEN << cur >> \o SplitFrom(s, i + 2, << >>)
         ELSE IF IsLineBreak(s[i])
              THEN << cur >> \o SplitFrom(s, i + 1, << >>)
              ELSE SplitFrom(s, i + 1, Append(cur, s[i]))

splitlines(s) == SplitFrom(s, 1, << >>)

\* ------------------------------------------------------------------------
\* Regular expressions (module re)
\* ------------------------------------------------------------------------

Lit(w) == [k |-> "lit", w |-> w, alts |-> << >>]
Ws0 == [k |-> "ws0", w |-> << >>, alts |-> << >>]
Ws1 == [k |-> "ws1", w |-> << >>, alts |-> << >>]
Alt(ws) == [k |-> "alt", w |-> << >>, alts |-> ws]

TodoTags == << <<"T", "O", "D", "O">>, <<"F", "I", "X", "M", "E">>, <<"X", "X", "X">>,
               <<"H", "A", "C", "K">>, <<"N", "O", "T", "E">> >>

\* re.compile(pattern_str): the expression a pattern text denotes.
compile(p) ==
    CASE p = "print\\s*\\(" ->
           << Lit(<<"p", "r", "i", "n", "t">>), Ws0, Lit(<<"(">>) >>
      [] p = "breakpoint\\s*\\(\\)" ->
           << Lit(<<"b", "r", "e", "a", "k", "p", "o", "i", "n", "t">>), Ws0,
              Lit(<<"(", ")">>) >>
      [] p = "import\\s+pdb" ->
           << Lit(<<"i", "m", "p", "o", "r", "t">>), Ws1, Lit(<<"p", "d", "b">>) >>
      [] p = "pdb\\.set_trace" ->
           << Lit(<<"p", "d", "b", ".", "s", "e", "t", "_", "t", "r", "a", "c", "e">>) >>
      [] p = "import\\s+ipdb" ->
           << Lit(<<"i", "m", "p", "o", "r", "t">>), Ws1, Lit(<<"i", "p", "d", "b">>) >>
      [] p = "ipdb\\.set_trace" ->
           << Lit(<<"i", "p", "d", "b", ".", "s", "e", "t", "_", "t", "r", "a", "c", "e">>) >>
      [] p = "console\\.(log|debug|info|warn|error)" ->
           << Lit(<<"c", "o", "n", "s", "o", "l", "e", ".">>),
              Alt(<< <<"l", "o", "g">>, <<"d", "e", "b", "u", "g">>, <<"i", "n", "f", "o">>,
                     <<"w", "a", "r", "n">>, <<"e", "r", "r", "o", "r">> >>) >>
      [] p = "debugger\\s*;" ->
           << Lit(<<"d", "e", "b", "u", "g", "g", "e", "r">>), Ws0, Lit(<<";">>) >>
      [] p = "alert\\s*\\(" ->
           << Lit(<<"a", "l", "e", "r", "t">>), Ws0, Lit(<<"(">>) >>
      [] p = "fmt\\.Print" ->
           << Lit(<<"f", "m", "t", ".", "P", "r", "i", "n", "t">>) >>
      [] p = "log\\.Print" ->
           << Lit(<<"l", "o", "g", ".", "P", "r", "i", "n", "t">>) >>
      [] p = "println\\(" ->
           << Lit(<<"p", "r", "i", "n", "t", "l", "n", "(">>) >>
      [] p = "#\\s*(TODO|FIXME|XXX|HACK|NOTE):" ->
           << Lit(<<"#">>), Ws0, Alt(TodoTags), Lit(<<":">>) >>
      [] p = "//\\s*(TODO|FIXME|XXX|HACK|NOTE):" ->
           << Lit(<<"/", "/">>), Ws0, Alt(TodoTags), Lit(<<":">>) >>
      [] p = "/\\*\\s*(TODO|FIXME|XXX|HACK|NOTE):" ->
           << Lit(<<"/", "*">>), Ws0, Alt(TodoTags), Lit(<<":">>) >>
      [] p = "print\\(" ->
           << Lit(<<"p", "r", "i", "n", "t", "(">>) >>
      [] p = "breakpoint\\(\\)" ->
           << Lit(<<"b", "r", "e", "a", "k", "p", "o", "i", "n", "t", "(", ")">>) >>
      [] p = "import pdb" ->
           << Lit(<<"i", "m", "p", "o", "r", "t", " ", "p", "d", "b">>) >>
      [] p = "console\\.(log|debug|info)" ->
           << Lit(<<"c", "o", "n", "s", "o", "l", "e", ".">>),
              Alt(<< <<"l", "o", "g">>, <<"d", "e", "b", "u", "g">>, <<"i", "n", "f", "o">> >>) >>
      [] p = "debugger;" ->
           << Lit(<<"d", "e", "b", "u", "g", "g", "e", "r", ";">>) >>
      [] p = "(TODO|FIXME|XXX|HACK):" ->
           << Alt(SubSeq(TodoTags, 1, 4)), Lit(<<":">>) >>
      [] p = "CUSTOM:" ->
           << Lit(<<"C", "U", "S", "T", "O", "M", ":">>) >>
      [] p = "^\\s*#" ->
           << Ws0, Lit(<<"#">>) >>
      [] p = "^\\s*(//|/\\*|\\*)" ->
           << Ws0, Alt(<< <<"/", "/">>, <<"/", "*">>, <<"*">> >>) >>
      [] p = "^\\s*//" ->
           << Ws0, Lit(<<"/", "/">>) >>

\* A literal w of the expression at position i of the line, folding case
\* under re.IGNORECASE.
LitAt(line, i, w, icase) ==
    /\ i + Len(w) - 1 <= Len(line)
    /\ \A j \in 1..Len(w) :
          IF icase
          THEN lower_char(line[i + j - 1]) = lower_char(w[j])
          ELSE line[i + j - 1] = w[j]

\* Some match of the atoms k.. of the expression starts at position i.
RECURSIVE MatchAt(_, _, _, _, _)
MatchAt(re, k, line, i, icase) ==
    IF k > Len(re)
    THEN TRUE
    ELSE LET a == re[k] IN
         CASE a.k = "lit" ->
                /\ LitAt(line, i, a.w, icase)
                /\ MatchAt(re, k + 1, line, i + Len(a.w), icase)
           [] a.k = "alt" ->
                \E n \in 1..Len(a.alts) :
                    /\ LitAt(line, i, a.alts[n], icase)
                    /\ MatchAt(re, k + 1, line, i + Len(a.alts[n]), icase)
           [] a.k = "ws0" ->
                \E j \in i..(Len(line) + 1) :
                    /\ \A m \in i..(j - 1) : IsSpace(line[m])
                    /\ MatchAt(re, k + 1, line, j, icase)
           [] a.k = "ws1" ->
                \E j \in (i + 1)..(Len(line) + 1) :
                    /\ \A m \in i..(j - 1) : IsSpace(line[m])
                    /\ MatchAt(re, k + 1, line, j, icase)

\* pattern.search(line): a match starting anywhere in the line.
search(re, line, icase) == \E i \in 1..(Len(line) + 1) : MatchAt(re, 1, line, i, icase)

\* pattern.match(line): a match starting at the beginning of the line.
match(re, line, icase) == MatchAt(re, 1, line, 1, icase)

\* ------------------------------------------------------------------------
\* PatternMatcher (analyzers.py)
\* ------------------------------------------------------------------------

\* A value of the patterns dictionary: a dict from language to pattern list,
\* or a plain pattern list.
DictBucket(d) == [kind |-> "dict", d |-> d, l |-> << >>]
ListBucket(l) == [kind |-> "list", d |-> << >>, l |-> l]

\* PatternMatcher.__init__: the seeded patterns dictionary.
DefaultPatterns ==
    [c \in {"debug", "todo"} |->
        IF c = "debug"
        THEN DictBucket(
               [g \in {"python", "javascript", "go"} |->
                  CASE g = "python" ->
                         << "print\\s*\\(", "breakpoint\\s*\\(\\)", "import\\s+pdb",
                            "pdb\\.set_trace", "import\\s+ipdb", "ipdb\\.set_trace" >>
                    [] g = "javascript" ->
                         << "console\\.(log|debug|info|warn|error)", "debugger\\s*;",
                            "alert\\s*\\(" >>
                    [] g = "go" ->
                         << "fmt\\.Print", "log\\.Print", "println\\(" >>])
        ELSE ListBucket(
               << "#\\s*(TODO|FIXME|XXX|HACK|NOTE):", "//\\s*(TODO|FIXME|XXX|HACK|NOTE):",
                  "/\\*\\s*(TODO|FIXME|XXX|HACK|NOTE):" >>)]

\* dict.get(key, default).
dict_get(d, key, default) == IF key \in DOMAIN d THEN d[key] ELSE default

\* d[key] = value on a dict.
dict_set(d, key, value) == [x \in (DOMAIN d) \cup {key} |-> IF x = key THEN value ELSE d[x]]

\* A selection written with setdefault: a language without a debug bucket
\* is given an empty one.
registry_after_find_setdefault(pats, pattern_type, language) ==
    IF pattern_type = "debug" /\ language # None /\ language \notin DOMAIN pats["debug"].d
    THEN dict_set(pats, "debug", DictBucket(dict_set(pats["debug"].d, language, << >>)))
    ELSE pats

\* The patterns dictionary after find_patterns has selected its list
\* (analyzers.py 49-54): .get(language, []) and the subscript insert nothing,
\* and the loop (56-65) appends to the local list matches alone.
registry_after_find(pats, pattern_type, language) ==
    IF pattern_type = "debug" /\ language # None /\ language \notin DOMAIN pats["debug"].d
    THEN pats
    ELSE pats

\* A selection that falls back to the python bucket when the language is
\* None or has no bucket of its own.
selected_patterns_fallback(pats, pattern_type, language) ==
    IF pattern_type = "debug"
    THEN dict_get(pats["debug"].d, language, dict_get(pats["debug"].d, "python", << >>))
    ELSE IF pattern_type = "todo"
         THEN pats["todo"].l
         ELSE << >>

\* The pattern list find_patterns selects (analyzers.py 49-54).
selected_patterns(pats, pattern_type, language) ==
    IF pattern_type = "debug" /\ language # None
    THEN dict_get(pats["debug"].d, language, << >>)
    ELSE IF pattern_type = "todo"
         THEN pats["todo"].l
         ELSE << >>

\* scan_lines with enumerate(lines) left at its default start of 0.
RECURSIVE scan_lines_from_zero(_, _, _, _)
scan_lines_from_zero(lines, i, pattern_str, pattern_type) ==
    IF i > Len(lines)
    THEN << >>
    ELSE (IF search(compile(pattern_str), lines[i], TRUE)
          THEN << [line |-> i - 1, content |-> strip(lines[i]), pattern |-> pattern_str,
                   type |-> pattern_type] >>
          ELSE << >>)
         \o scan_lines_from_zero(lines, i + 1, pattern_str, pattern_type)

\* The inner loop of find_patterns: the lines i.. tested against one pattern.
RECURSIVE scan_lines(_, _, _, _)
scan_lines(lines, i, pattern_str, pattern_type) ==
    IF i > Len(lines)
    THEN << >>
    ELSE (IF search(compile(pattern_str), lines[i], TRUE)
          THEN << [line |-> i, content |-> strip(lines[i]), pattern |-> pattern_str,
                   type |-> pattern_type] >>
          ELSE << >>)
         \o scan_lines(lines, i + 1, pattern_str, pattern_type)

\* The outer loop of find_patterns: the patterns k.. in list order.
RECURSIVE scan_patterns(_, _, _, _)
scan_patterns(lines, pattern_list, k, pattern_type) ==
    IF k > Len(pattern_list)
    THEN << >>
    ELSE scan_lines(lines, 1, pattern_list[k], pattern_type)
         \o scan_patterns(lines, pattern_list, k + 1, pattern_type)

\* find_patterns with the loops exchanged: every pattern tried on a line
\* before the next line is read.
RECURSIVE scan_line_major(_, _, _, _)
scan_line_major(lines, i, pattern_list, pattern_type) ==
    IF i > Len(lines)
    THEN << >>
    ELSE LET hit(k) == IF search(compile(pattern_list[k]), lines[i], TRUE)
                       THEN << [line |-> i, content |-> strip(lines[i]),
                                pattern |-> pattern_list[k], type |-> pattern_type] >>
                       ELSE << >>
             row[k \in 0..Len(pattern_list)] == IF k = 0 THEN << >> ELSE row[k - 1] \o hit(k)
         IN  row[Len(pattern_list)] \o scan_line_major(lines, i + 1, pattern_list, pattern_type)

find_patterns_line_major(pats, content, pattern_type, language) ==
    scan_line_major(splitlines(content), 1,
                    selected_patterns(pats, pattern_type, language), pattern_type)

\* PatternMatcher.find_patterns.
find_patterns(pats, content, pattern_type, language) ==
    scan_patterns(splitlines(content), selected_patterns(pats, pattern_type, language), 1,
                  pattern_type)

\* PatternMatcher.add_custom_pattern: the patterns dictionary after the call
\* and the exception it raised (None when it returned).
add_custom_pattern(pats, pattern_type, pattern, language) ==
    LET p1 == IF pattern_type \notin DOMAIN pats
              THEN dict_set(pats, pattern_type, DictBucket(<< >>))
              ELSE pats
        b == p1[pattern_type]
    IN  IF language # None
        THEN IF b.kind = "list"
             THEN [patterns |-> p1, raised |-> "TypeError"]
             ELSE LET d1 == IF language \notin DOMAIN b.d
                            THEN dict_set(b.d, language, << >>)
                            ELSE b.d
                  IN  [patterns |->
                          dict_set(p1, pattern_type,
                                   DictBucket(dict_set(d1, language,
                                                       Append(d1[language], pattern)))),
                       raised |-> None]
        ELSE IF b.kind = "dict"
             THEN [patterns |-> p1, raised |-> "AttributeError"]
             ELSE [patterns |-> dict_set(p1, pattern_type, ListBucket(Append(b.l, pattern))),
                   raised |-> None]

\* ------------------------------------------------------------------------
\* Paths (pathlib)
\* ------------------------------------------------------------------------

\* The "/"-separated components of a path text from position i on.
RECURSIVE SplitPathFrom(_, _, _)
SplitPathFrom(p, i, cur) ==
    IF i > Len(p)
    THEN << cur >>
    ELSE IF p[i] = "/"
         THEN << cur >> \o SplitPathFrom(p, i + 1, << >>)
         ELSE SplitPathFrom(p, i + 1, Append(cur, p[i]))

\* Path(p).parts without the root: empty and "." components are dropped.
path_parts(p) ==
    SelectSeq(SplitPathFrom(p, 1, << >>), LAMBDA c : c # << >> /\ c # <<".">>)

RECURSIVE JoinParts(_, _)
JoinParts(parts, i) ==
    IF i > Len(parts)
    THEN << >>
    ELSE (IF i = 1 THEN << >> ELSE <<"/">>) \o parts[i] \o JoinParts(parts, i + 1)

\* The text of a path made of its root and parts.
path_text(root, parts) ==
    IF parts = << >> /\ root = << >> THEN <<".">> ELSE root \o JoinParts(parts, 1)

\* str(Path(p)): the normalised text of a path.
path_str(p) ==
    path_text(IF Len(p) > 0 /\ p[1] = "/" THEN <<"/">> ELSE << >>, path_parts(p))

\* The last of the parts of a path, empty when it has none.
last_part(parts) == IF parts = << >> THEN << >> ELSE parts[Len(parts)]

\* Path(p).name: the last component.
path_name(p) == last_part(path_parts(p))

\* The position of the last dot of a name, 0 when it has none.
last_dot(name) ==
    LET dots == {i \in 1..Len(name) : name[i] = "."}
    IN  IF dots = {} THEN 0 ELSE CHOOSE i \in dots : \A j \in dots : j <= i

\* The name from its last dot on, when that dot is neither the first nor
\* the last character of the name.
suffix_from(name, last) ==
    IF 1 < last /\ last < Len(name) THEN SubSeq(name, last, Len(name)) ELSE << >>

\* Path(p).suffix.
path_suffix(p) == suffix_from(path_name(p), last_dot(path_name(p)))

\* ------------------------------------------------------------------------
\* Language classification and exclusion
\* ------------------------------------------------------------------------

ExtPy == <<".", "p", "y">>
ExtJs == <<".", "j", "s">>
ExtJsx == <<".", "j", "s", "x">>
ExtTs == <<".", "t", "s">>
ExtTsx == <<".", "t", "s", "x">>
ExtGo == <<".", "g", "o">>
ExtJava == <<".", "j", "a", "v", "a">>
ExtRb == <<".", "r", "b">>
ExtPhp == <<".", "p", "h", "p">>

\* CodeAnalyzer.supported_languages, as a lookup: the tag of an extension,
\* or None for an extension that is not a key.
supported_languages(ext) ==
    CASE ext = ExtPy -> "python"
      [] ext \in {ExtJs, ExtJsx, ExtTs, ExtTsx} -> "javascript"
      [] ext = ExtGo -> "go"
      [] ext = ExtJava -> "java"
      [] ext = ExtRb -> "ruby"
      [] ext = ExtPhp -> "php"
      [] OTHER -> None

\* self.supported_languages.get(ext, "unknown").
tag_or_unknown(tag) == IF tag = None THEN "unknown" ELSE tag

\* A classification that compares the extension as it is written.
detect_language_as_written(file_path) ==
    tag_or_unknown(supported_languages(path_suffix(file_path)))

\* CodeAnalyzer._detect_language.
detect_language(file_path) ==
    tag_or_unknown(supported_languages(lower(path_suffix(file_path))))

\* A check that takes every file for a code file.
is_code_file_any(file_path) == file_path = file_path

\* CodeAnalyzer._is_code_file.
is_code_file(file_path) == supported_languages(lower(path_suffix(file_path))) # None

\* language_map.get(ext, "unknown") of CleanupEngine._detect_language: the
\* engine's own, longer table.
language_map(ext) ==
    CASE ext = ExtPy -> "python"
      [] ext \in {ExtJs, ExtJsx, ExtTs, ExtTsx} -> "javascript"
      [] ext = ExtGo -> "go"
      [] ext = ExtJava -> "java"
      [] ext = ExtRb -> "ruby"
      [] ext = ExtPhp -> "php"
      [] ext = <<".", "c">> -> "c"
      [] ext = <<".", "c", "p", "p">> -> "cpp"
      [] ext = <<".", "c", "s">> -> "csharp"
      [] ext = <<".", "r", "s">> -> "rust"
      [] OTHER -> "unknown"

\* CleanupEngine._detect_language.
engine_detect_language(file_path) == language_map(lower(path_suffix(file_path)))

\* CleanupCommand._matches_language.
matches_language(file_path, language) ==
    LET extensions ==
            CASE language = "python" -> {ExtPy}
              [] language = "javascript" -> {ExtJs, ExtJsx, ExtTs, ExtTsx}
              [] language = "go" -> {ExtGo}
              [] language = "java" -> {ExtJava}
              [] language = "ruby" -> {ExtRb}
              [] language = "php" -> {ExtPhp}
              [] OTHER -> {}
    IN  \E ext \in extensions : endswith(file_path, ext)

\* CleanupConfig.exclude_patterns as seeded by CleanupConfig.__init__.
exclude_patterns ==
    << <<"*", ".", "m", "i", "n", ".", "j", "s">>,
       <<"n", "o", "d", "e", "_", "m", "o", "d", "u", "l", "e", "s", "/">>,
       <<"v", "e", "n", "d", "o", "r", "/">>,
       <<"_", "_", "p", "y", "c", "a", "c", "h", "e", "_", "_", "/">>,
       <<".", "g", "i", "t", "/">> >>

\* An is_excluded that reads a rule starting with "*" as a glob: any path
\* ending with the rest of the rule matches.
excluded_by_glob(rules, file_path) ==
    \E k \in DOMAIN rules :
        \/ contains(path_str(file_path), rules[k])
        \/ /\ rules[k] # << >>
           /\ rules[k][1] = "*"
           /\ endswith(path_str(file_path), SubSeq(rules[k], 2, Len(rules[k])))

\* The loop of CleanupConfig.is_excluded over the exclusion rules it holds.
excluded_by(rules, file_path) ==
    \E k \in DOMAIN rules : contains(path_str(file_path), rules[k])

\* CleanupConfig.is_excluded of a config as seeded.
is_excluded(file_path) == excluded_by(exclude_patterns, file_path)

\* ------------------------------------------------------------------------
\* Files
\* ------------------------------------------------------------------------

PathA == <<"a", ".", "p", "y">>
PathDot == <<".", "p", "y">>
PathB == <<"b", ".", "j", "s">>
PathGit == <<".", "g", "i", "t", "/", "c", ".", "p", "y">>

\* The paths of the working directory, top-level files first.
TopPaths == {PathA, PathDot, PathB}
SubPaths == {PathGit}
Paths == TopPaths \cup SubPaths

\* The bytes each file holds when it is there.
FileContent ==
    [p \in Paths |->
        CASE p = PathA ->
               <<"i", "m", "p", "o", "r", "t", " ", "o", "s", ",", " ", "r", "e", "\n",
                 "p", "r", "i", "n", "t", "(", "1", ")", "\n",
                 "#", " ", "T", "O", "D", "O", ":", " ", "x", "\n">>
          [] p = PathDot ->
               <<"i", "m", "p", "o", "r", "t", " ", "o", "s", "\r", "\n",
                 "#", " ", "T", "O", "D", "O", ":", " ", "x", "\r", "\n">>
          [] p = PathB ->
               <<"/", "/", " ", "T", "O", "D", "O", ":", " ", "f", "i", "x", "\n",
                 "c", "o", "n", "s", "o", "l", "e", ".", "l", "o", "g", "(", "'", "x", "'",
                 ")", ";", "\n">>
          [] p = PathGit ->
               <<"p", "r", "i", "n", "t", "(", "1", ")", "\n">>]

Present(p) == [exists |-> TRUE, readable |-> TRUE, content |-> FileContent[p]]
Unreadable(p) == [exists |-> TRUE, readable |-> FALSE, content |-> FileContent[p]]
Missing == [exists |-> FALSE, readable |-> FALSE, content |-> << >>]

\* Path.exists().
path_exists(fsys, file_path) == file_path \in DOMAIN fsys /\ fsys[file_path].exists

\* open(file_path, 'r', encoding='utf-8') succeeds.
can_open(fsys, file_path) == path_exists(fsys, file_path) /\ fsys[file_path].readable

\* A byte that is no UTF-8 text; f.read() raises UnicodeDecodeError on it.
BadByte == "<0xff>"

decodable(bytes) == \A i \in DOMAIN bytes : bytes[i] # BadByte

\* open(file_path, 'r', encoding='utf-8') and f.read() both succeed.
can_read(fsys, file_path) ==
    can_open(fsys, file_path) /\ decodable(fsys[file_path].content)

\* str(e) for the OSError open raises.
open_error(fsys, file_path) ==
    IF ~path_exists(fsys, file_path)
    THEN <<"[Errno 2] No such file or directory: ", file_path>>
    ELSE <<"[Errno 13] Permission denied: ", file_path>>

\* str(e) for the exception open or f.read() raises.
read_error(fsys, file_path) ==
    IF ~can_open(fsys, file_path)
    THEN open_error(fsys, file_path)
    ELSE <<"'utf-8' codec can't decode byte 0xff">>

\* f.read() in text mode: "\r\n" and "\r" are read as "\n".
RECURSIVE read_text(_, _)
read_text(bytes, i) ==
    IF i > Len(bytes)
    THEN << >>
    ELSE IF bytes[i] = "\r" /\ i < Len(bytes) /\ bytes[i + 1] = "\n"
         THEN <<"\n">> \o read_text(bytes, i + 2)
         ELSE IF bytes[i] = "\r"
              THEN <<"\n">> \o read_text(bytes, i + 1)
              ELSE << bytes[i] >> \o read_text(bytes, i + 1)

\* What read_text gives for each file as it is on disk, computed once:
\* pairs of a path and its text.
SeededText == { << p, read_text(FileContent[p], 1) >> : p \in Paths }

\* with open(file_path, 'r', encoding='utf-8') as f: content = f.read().
read_file(fsys, file_path) ==
    IF file_path \in Paths /\ fsys[file_path].content = FileContent[file_path]
    THEN (CHOOSE t \in SeededText : t[1] = file_path)[2]
    ELSE read_text(fsys[file_path].content, 1)

\* ------------------------------------------------------------------------
\* Syntax trees (module ast)
\* ------------------------------------------------------------------------

\* An alias of an import statement: its name split at the dots (a from-import
\* name has one segment) and its asname or None.
Alias(name, asname) == [name |-> name, asname |-> asname]
ImportNode(names) == [type |-> "Import", names |-> names, id |-> None]
ImportFromNode(names) == [type |-> "ImportFrom", names |-> names, id |-> None]
NameNode(id) == [type |-> "Name", names |-> << >>, id |-> id]
OtherNode(type) == [type |-> type, names |-> << >>, id |-> None]

\* The nodes ast.walk yields for one source line, for the lines the files
\* hold; ok is FALSE for a line that is no Python statement.
parse_line(line) ==
    CASE line = <<"i", "m", "p", "o", "r", "t", " ", "o", "s", ",", " ", "r", "e">> ->
           [ok |-> TRUE,
            nodes |-> << ImportNode(<< Alias(<<"os">>, None), Alias(<<"re">>, None) >>) >>]
      [] line = <<"i", "m", "p", "o", "r", "t", " ", "o", "s">> ->
           [ok |-> TRUE, nodes |-> << ImportNode(<< Alias(<<"os">>, None) >>) >>]
      [] line = <<"p", "r", "i", "n", "t", "(", "1", ")">> ->
           [ok |-> TRUE,
            nodes |-> << OtherNode("Expr"), OtherNode("Call"), NameNode("print"),
                         OtherNode("Constant") >>]
      [] line = <<"i", "m", "p", "o", "r", "t", " ", "s", "y", "s">> ->
           [ok |-> TRUE, nodes |-> << ImportNode(<< Alias(<<"sys">>, None) >>) >>]
      [] line = <<"i", "m", "p", "o", "r", "t", " ", "o", "s", " ", "a", "s", " ", "o">> ->
           [ok |-> TRUE, nodes |-> << ImportNode(<< Alias(<<"os">>, "o") >>) >>]
      [] line = <<"i", "m", "p", "o", "r", "t", " ", "a", ".", "b">> ->
           [ok |-> TRUE, nodes |-> << ImportNode(<< Alias(<<"a", "b">>, None) >>) >>]
      [] line = <<"f", "r", "o", "m", " ", "m", " ", "i", "m", "p", "o", "r", "t", " ", "x">> ->
           [ok |-> TRUE, nodes |-> << ImportFromNode(<< Alias(<<"x">>, None) >>) >>]
      [] line = <<"p", "r", "i", "n", "t", "(", "s", "y", "s", ".", "v", "e", "r", "s", "i", "o", "n", ")">> ->
           [ok |-> TRUE,
            nodes |-> << OtherNode("Expr"), OtherNode("Call"), NameNode("print"),
                         OtherNode("Attribute"), NameNode("sys") >>]
      [] line = <<"p", "r", "i", "n", "t", "(", "o", ")">> ->
           [ok |-> TRUE,
            nodes |-> << OtherNode("Expr"), OtherNode("Call"), NameNode("print"),
                         NameNode("o") >>]
      [] strip(line) = << >> \/ match(compile("^\\s*#"), line, FALSE) ->
           [ok |-> TRUE, nodes |-> << >>]
      [] OTHER ->
           [ok |-> FALSE, nodes |-> << >>]

\* The nodes of the lines of a module, or ok = FALSE when some line does not
\* parse (SyntaxError).
ast_of_lines(lines) ==
    LET acc[i \in 0..Len(lines)] ==
            IF i = 0 THEN << >> ELSE acc[i - 1] \o parse_line(lines[i]).nodes
    IN  [ok |-> \A i \in DOMAIN lines : parse_line(lines[i]).ok,
         nodes |-> acc[Len(lines)]]

\* ast.parse followed by ast.walk.
ast_parse(content) == ast_of_lines(splitlines(content))

\* ------------------------------------------------------------------------
\* CodeAnalyzer (analyzers.py)
\* ------------------------------------------------------------------------

EmptyDict == << >>

\* A count that takes the python comment pattern for every language.
count_comment_lines_any(lines, language) ==
    Cardinality({i \in DOMAIN lines : match(compile("^\\s*#"), lines[i], FALSE)})

\* CodeAnalyzer._count_comment_lines.
count_comment_lines(lines, language) ==
    LET pattern_str ==
            CASE language = "python" -> "^\\s*#"
              [] language \in {"javascript", "java"} -> "^\\s*(//|/\\*|\\*)"
              [] language = "go" -> "^\\s*//"
              [] OTHER -> None
    IN  IF pattern_str = None
        THEN 0
        ELSE Cardinality({i \in DOMAIN lines : match(compile(pattern_str), lines[i], FALSE)})

\* The counts _analyze_python takes over the nodes of the tree; {} when
\* the content does not parse.
python_counts(tree) ==
    LET count(types) == Cardinality({i \in DOMAIN tree.nodes : tree.nodes[i].type \in types})
    IN  IF tree.ok
        THEN [classes |-> count({"ClassDef"}), functions |-> count({"FunctionDef"}),
              imports |-> count({"Import", "ImportFrom"})]
        ELSE EmptyDict

\* CodeAnalyzer._analyze_python.
analyze_python(content) == python_counts(ast_parse(content))

\* A result dict whose issues list has the todo matches first.
analysis_results_todo_first(file_path, language, debug_matches, todo_matches, lines) ==
    [file |-> file_path,
     language |-> language,
     issues |-> todo_matches \o debug_matches,
     metrics |->
         [total_lines |-> Len(lines),
          blank_lines |-> Cardinality({i \in DOMAIN lines : strip(lines[i]) = << >>}),
          comment_lines |-> count_comment_lines(lines, language),
          debug_statements |-> Len(debug_matches),
          todos |-> Len(todo_matches)]]

\* The result dict analyze fills in from the matches and the lines
\* (analyzers.py 108-136).
analysis_results(file_path, language, debug_matches, todo_matches, lines) ==
    [file |-> file_path,
     language |-> language,
     issues |-> debug_matches \o todo_matches,
     metrics |->
         [total_lines |-> Len(lines),
          blank_lines |-> Cardinality({i \in DOMAIN lines : strip(lines[i]) = << >>}),
          comment_lines |-> count_comment_lines(lines, language),
          debug_statements |-> Len(debug_matches),
          todos |-> Len(todo_matches)]]

\* results["python_analysis"] = self._analyze_python(content) for a python
\* file (analyzers.py 139-140).
with_python_analysis(results, language, content) ==
    IF language = "python"
    THEN results @@ [python_analysis |-> analyze_python(content)]
    ELSE results

\* The body of the try block of CodeAnalyzer.analyze once the content is
\* read (analyzers.py 120-140).
analyze_content(pats, file_path, language, content) ==
    with_python_analysis(
        analysis_results(file_path, language,
                         find_patterns(pats, content, "debug", language),
                         find_patterns(pats, content, "todo", None),
                         splitlines(content)),
        language, content)

\* What analyze_content gives for each file as it is on disk under the
\* seeded patterns, computed once: pairs of a path and its result.
SeededAnalysis ==
    { << p, analyze_content(DefaultPatterns, p, detect_language(p),
                            read_text(FileContent[p], 1)) >> : p \in Paths }

\* The same under whatever patterns and content there are.
analyze_read(fsys, pats, file_path, language) ==
    IF pats = DefaultPatterns /\ file_path \in Paths
       /\ fsys[file_path].content = FileContent[file_path]
    THEN (CHOOSE t \in SeededAnalysis : t[1] = file_path)[2]
    ELSE analyze_content(pats, file_path, language, read_file(fsys, file_path))

\* An analyze that, when the read fails, returns the error alone.
analyze_existing_error_only(fsys, pats, file_path, language) ==
    IF ~can_read(fsys, file_path)
    THEN [error |-> read_error(fsys, file_path)]
    ELSE analyze_read(fsys, pats, file_path, language)

\* CodeAnalyzer.analyze for a path that exists, classified as language.
analyze_existing(fsys, pats, file_path, language) ==
    IF ~can_read(fsys, file_path)
    THEN [file |-> file_path, language |-> language, issues |-> << >>,
          metrics |-> EmptyDict, error |-> read_error(fsys, file_path)]
    ELSE analyze_read(fsys, pats, file_path, language)

\* The patterns dictionary after CodeAnalyzer.analyze: the two find_patterns
\* calls are reached when the file exists and is read (analyzers.py 121-126).
registry_after_analyze(fsys, pats, file_path) ==
    IF can_read(fsys, file_path)
    THEN registry_after_find(registry_after_find(pats, "debug", detect_language(file_path)),
                             "todo", None)
    ELSE pats

\* An analyze that goes on to classify and open the path without asking
\* whether it exists.
analyze_unguarded(fsys, pats, file_path) ==
    analyze_existing(fsys, pats, file_path, detect_language(file_path))

\* CodeAnalyzer.analyze.
analyze(fsys, pats, file_path) ==
    IF ~path_exists(fsys, file_path)
    THEN [error |-> "File not found"]
    ELSE analyze_existing(fsys, pats, file_path, detect_language(file_path))

\* The identifiers the files use, in the order that decides how a set of
\* them is listed.
KnownNames == <<"os", "re", "print", "sys", "o", "a", "x">>

NameRank(n) == CHOOSE i \in DOMAIN KnownNames : KnownNames[i] = n

\* list(a_set): the elements in the order the string hashing of the process
\* gives, by rank for hash seed 0 and by falling rank otherwise.
RECURSIVE list_of_set(_, _)
list_of_set(S, seed) ==
    IF S = {}
    THEN << >>
    ELSE LET x == CHOOSE x \in S :
                      \A y \in S : IF seed = 0
                                   THEN NameRank(x) <= NameRank(y)
                                   ELSE NameRank(x) >= NameRank(y)
         IN  << x >> \o list_of_set(S \ {x}, seed)

\* imported_names of find_unused_imports over the nodes N of the tree.
imported_names(N) ==
    UNION { { IF N[i].names[a].asname # None
              THEN N[i].names[a].asname
              ELSE N[i].names[a].name[1]
              : a \in DOMAIN N[i].names }
            : i \in {j \in DOMAIN N : N[j].type \in {"Import", "ImportFrom"}} }

\* used_names of find_unused_imports over the nodes N of the tree.
used_names(N) == { N[i].id : i \in {j \in DOMAIN N : N[j].type = "Name"} }

\* list(imported_names - used_names), [] when the content does not parse.
unused_of_tree(tree, seed) ==
    IF tree.ok
    THEN list_of_set(imported_names(tree.nodes) \ used_names(tree.nodes), seed)
    ELSE << >>

\* The try block of find_unused_imports on the content read.
unused_imports_of(content, seed) == unused_of_tree(ast_parse(content), seed)

\* CodeAnalyzer.find_unused_imports.
find_unused_imports(fsys, file_path, seed) ==
    IF ~endswith(file_path, ExtPy)
    THEN << >>
    ELSE IF ~can_read(fsys, file_path)
         THEN << >>
         ELSE unused_imports_of(read_file(fsys, file_path), seed)

\* The characters of the files, numbered (ord).
Alphabet ==
    LowerChars \o UpperChars
    \o <<" ", "\n", "\r", "\t", "(", ")", "1", "#", ":", ",", "/", ".", "'", ";">>

ord(c) == CHOOSE i \in DOMAIN Alphabet : Alphabet[i] = c

\* Width of a text hash.
HashMod == 1048576

\* hash(content) of the process whose string hashing is seeded with seed.
hash_str(content, seed) ==
    LET h[i \in 0..Len(content)] ==
            IF i = 0 THEN seed ELSE (h[i - 1] * 31 + ord(content[i])) % HashMod
    IN  h[Len(content)]

\* The seeds of string hashing the processes run with.
Seeds == {0, 1}

\* What hash_str gives for the text of each file as it is on disk, computed
\* once: triples of a path, a seed and the hash.
SeededHash ==
    { << p, seed, hash_str(read_text(FileContent[p], 1), seed) >> : p \in Paths, seed \in Seeds }

\* hash(content) for the content read from a file.
hash_file(fsys, file_path, seed) ==
    IF file_path \in Paths /\ seed \in Seeds
       /\ fsys[file_path].content = FileContent[file_path]
    THEN (CHOOSE t \in SeededHash : t[1] = file_path /\ t[2] = seed)[3]
    ELSE hash_str(read_file(fsys, file_path), seed)

\* A loop body that, on a known hash, also records the current file as the
\* one later files are paired with.
note_hash_latest(acc, content_hash, file_path) ==
    IF content_hash \in DOMAIN acc.file_hashes
    THEN [acc EXCEPT !.duplicates =
              Append(@, [file1 |-> path_str(acc.file_hashes[content_hash]),
                         file2 |-> path_str(file_path),
                         type |-> "exact_duplicate"]),
                     !.file_hashes = dict_set(@, content_hash, file_path)]
    ELSE [acc EXCEPT !.file_hashes = dict_set(@, content_hash, file_path)]

\* The body of the loop of find_duplicates for a file read: a duplicate
\* record when the hash is known, else the hash is noted (analyzers.py
\* 160-168).
note_hash(acc, content_hash, file_path) ==
    IF content_hash \in DOMAIN acc.file_hashes
    THEN [acc EXCEPT !.duplicates =
              Append(@, [file1 |-> path_str(acc.file_hashes[content_hash]),
                         file2 |-> path_str(file_path),
                         type |-> "exact_duplicate"])]
    ELSE [acc EXCEPT !.file_hashes = dict_set(@, content_hash, file_path)]

\* The loop of find_duplicates over the files k.. of the traversal, with
\* the file_hashes and duplicates collected so far in acc.
RECURSIVE duplicates_from(_, _, _, _, _)
duplicates_from(fsys, walk, k, seed, acc) ==
    IF k > Len(walk)
    THEN acc.duplicates
    ELSE IF path_exists(fsys, walk[k]) /\ is_code_file(walk[k]) /\ can_read(fsys, walk[k])
         THEN duplicates_from(fsys, walk, k + 1, seed,
                              note_hash(acc, hash_file(fsys, walk[k], seed), walk[k]))
         ELSE duplicates_from(fsys, walk, k + 1, seed, acc)

\* CodeAnalyzer.find_duplicates; walk is the order in which rglob yields the
\* files of the directory.
find_duplicates(fsys, walk, seed) ==
    duplicates_from(fsys, walk, 1, seed, [file_hashes |-> EmptyDict, duplicates |-> << >>])

\* ------------------------------------------------------------------------
\* CleanupEngine (core.py)
\* ------------------------------------------------------------------------

\* CleanupConfig.debug_patterns; << >> for a language the dict has no key for.
debug_patterns(language) ==
    CASE language = "python" -> <<"print\\(", "breakpoint\\(\\)", "import pdb">>
      [] language = "javascript" -> <<"console\\.(log|debug|info)", "debugger;">>
      [] language = "go" -> <<"fmt\\.Print", "log\\.Print">>
      [] OTHER -> << >>

\* The issue records analyze_file appends for the lines numbered hits.
issue_records(lines, hits, issue_type) ==
    [j \in DOMAIN hits |->
        [type |-> issue_type, line |-> hits[j], content |-> strip(lines[hits[j]])]]

\* The loop over enumerate(lines, 1) for one compiled pattern: a record for
\* each line the pattern is found in (core.py 86-93, 97-104).
engine_scan_lines(lines, pattern_str, issue_type) ==
    issue_records(lines,
                  SelectSeq([i \in DOMAIN lines |-> i],
                            LAMBDA i : search(compile(pattern_str), lines[i], FALSE)),
                  issue_type)

\* The loop over config.debug_patterns[language] from entry k on.
RECURSIVE engine_scan_patterns(_, _, _)
engine_scan_patterns(lines, pattern_list, k) ==
    IF k > Len(pattern_list)
    THEN << >>
    ELSE engine_scan_lines(lines, pattern_list[k], "debug")
             \o engine_scan_patterns(lines, pattern_list, k + 1)

\* CleanupConfig.__init__: the config as seeded.
DefaultConfig ==
    [auto_fix |-> FALSE,
     exclude_patterns |-> exclude_patterns,
     debug_patterns |-> [g \in {"python", "javascript", "go"} |-> debug_patterns(g)]]

\* A pattern text re.compile raises re.error on.
BadRegex == "("

\* The first entry of the pattern list re.compile raises on, 0 when there
\* is none.
first_invalid(pattern_list) ==
    IF \A k \in DOMAIN pattern_list : pattern_list[k] # BadRegex
    THEN 0
    ELSE CHOOSE k \in DOMAIN pattern_list :
            /\ pattern_list[k] = BadRegex
            /\ \A j \in 1..(k - 1) : pattern_list[j] # BadRegex

\* An analyze_file that starts files_processed and issues_found afresh on
\* each file instead of adding to them.
engine_results_reset(engine_stats, file_path, debug_issues, todo_issues) ==
    [results |-> [file |-> file_path, issues |-> debug_issues \o todo_issues,
                  stats |-> EmptyDict],
     stats |-> [engine_stats EXCEPT
                   !.debug_statements = @ + Len(debug_issues),
                   !.todos = @ + Len(todo_issues),
                   !.files_processed = 1,
                   !.issues_found = Len(debug_issues) + Len(todo_issues)],
     opened |-> << file_path >>]

\* What analyze_file leaves once the loops have run: the dict with the
\* issues, and the stats with the counters raised (core.py 93, 104, 106-107).
engine_results(engine_stats, file_path, debug_issues, todo_issues) ==
    [results |-> [file |-> file_path, issues |-> debug_issues \o todo_issues,
                  stats |-> EmptyDict],
     stats |-> [engine_stats EXCEPT
                   !.debug_statements = @ + Len(debug_issues),
                   !.todos = @ + Len(todo_issues),
                   !.files_processed = @ + 1,
                   !.issues_found = @ + Len(debug_issues) + Len(todo_issues)],
     opened |-> << file_path >>]

\* What analyze_file leaves when re.compile raises in the debug loop: the
\* issues of the patterns before it, debug_statements raised by one for each
\* of them (core.py 93), and the message as error (core.py 109-110).
engine_failed(engine_stats, file_path, debug_issues) ==
    [results |-> [file |-> file_path, issues |-> debug_issues, stats |-> EmptyDict,
                  error |-> <<"missing ), unterminated subpattern at position 0">>],
     stats |-> [engine_stats EXCEPT !.debug_statements = @ + Len(debug_issues)],
     opened |-> << file_path >>]

\* The two scans of analyze_file over the lines with the debug patterns of
\* the language, of which entry bad does not compile (0: all do).
scan_result(engine_stats, file_path, lines, pattern_list, bad) ==
    IF bad = 0
    THEN engine_results(engine_stats, file_path,
                        engine_scan_patterns(lines, pattern_list, 1),
                        engine_scan_lines(lines, "(TODO|FIXME|XXX|HACK):", "todo"))
    ELSE engine_failed(engine_stats, file_path,
                       engine_scan_patterns(lines, SubSeq(pattern_list, 1, bad - 1), 1))

\* The scans with the patterns config.debug_patterns holds for the language
\* (core.py 83-84).
scan_with(engine_stats, file_path, lines, pattern_list) ==
    scan_result(engine_stats, file_path, lines, pattern_list, first_invalid(pattern_list))

\* The two scans of analyze_file over the lines read (core.py 81-104).
analyze_lines(cfg, engine_stats, file_path, lines) ==
    scan_with(engine_stats, file_path, lines,
              dict_get(cfg.debug_patterns, engine_detect_language(file_path), << >>))

\* CleanupEngine.analyze_file past the exclusion check (core.py 70-112):
\* the dict returned, the stats after the call and the paths it opened.
analyze_open(cfg, fsys, engine_stats, file_path) ==
    IF ~can_read(fsys, file_path)
    THEN [results |-> [file |-> file_path, issues |-> << >>, stats |-> EmptyDict,
                       error |-> read_error(fsys, file_path)],
          stats |-> engine_stats,
          opened |-> << file_path >>]
    ELSE analyze_lines(cfg, engine_stats, file_path, splitlines(read_file(fsys, file_path)))

\* An analyze_file that goes on to open the file whatever the exclusion
\* rules say.
analyze_file_unchecked(cfg, fsys, engine_stats, file_path) ==
    analyze_open(cfg, fsys, engine_stats, file_path)

\* CleanupEngine.analyze_file.
analyze_file(cfg, fsys, engine_stats, file_path) ==
    IF excluded_by(cfg.exclude_patterns, file_path)
    THEN [results |-> [skipped |-> TRUE, reason |-> "excluded"],
          stats |-> engine_stats,
          opened |-> << >>]
    ELSE analyze_open(cfg, fsys, engine_stats, file_path)

\* path.rglob("*") restricted to files: the files of the walk that are in
\* the directory.
rglob_files(fsys, directory, walk) ==
    SelectSeq(walk, LAMBDA q :
        /\ path_exists(fsys, q)
        /\ \/ path_str(directory) = <<".">>
           \/ StartsAt(path_str(q), 1, path_str(directory) \o <<"/">>))

\* The body of the loop of analyze_directory for the result r of one file
\* (core.py 122-123).
add_unless_skipped(acc, r) ==
    [results |-> IF "skipped" \in DOMAIN r.results /\ r.results.skipped
                 THEN acc.results
                 ELSE Append(acc.results, r.results),
     stats |-> r.stats,
     opened |-> acc.opened \o r.opened]

\* The loop of analyze_directory over the files k.. (core.py 119-123).
RECURSIVE directory_loop(_, _, _, _, _)
directory_loop(cfg, fsys, found, k, acc) ==
    IF k > Len(found)
    THEN acc
    ELSE directory_loop(cfg, fsys, found, k + 1,
                        add_unless_skipped(acc,
                                           analyze_file(cfg, fsys, acc.stats,
                                                        path_str(found[k]))))

\* CleanupEngine.analyze_directory.
analyze_directory(cfg, fsys, engine_stats, directory, walk) ==
    directory_loop(cfg, fsys, rglob_files(fsys, directory, walk), 1,
                   [results |-> << >>, stats |-> engine_stats, opened |-> << >>])

\* A fixing branch that rewrites the file without the lines reported.
apply_fixes_rewrite(cfg, fsys, fix, analysis) ==
    IF fix /\ cfg.auto_fix /\ "issues" \in DOMAIN analysis /\ analysis.issues # << >>
    THEN [fsys EXCEPT ![analysis.file].content = << >>]
    ELSE fsys

\* The disk after the fixing branch of cleanup_file (core.py 131-133) and
\* of _process_file (commands.py 172-174): the branch is `pass`.
apply_fixes(cfg, fsys, fix, analysis) ==
    IF fix /\ cfg.auto_fix /\ "issues" \in DOMAIN analysis /\ analysis.issues # << >>
    THEN fsys
    ELSE fsys

\* What cleanup_file leaves in r, the outcome of its analyze_file call.
after_fixes(cfg, fsys, fix, r) ==
    [results |-> r.results, stats |-> r.stats, opened |-> r.opened,
     fs |-> apply_fixes(cfg, fsys, fix, r.results)]

\* CleanupEngine.cleanup_file: the dict returned, the stats, the paths
\* opened and the disk after the call.
cleanup_file(cfg, fsys, engine_stats, file_path, fix) ==
    after_fixes(cfg, fsys, fix, analyze_file(cfg, fsys, engine_stats, file_path))

\* dict.copy(): a new dict object holding the items of d. An object is its
\* identity and its items.
dict_copy(d) == [id |-> "copy", items |-> [k \in DOMAIN d |-> d[k]]]

\* A get_summary that returns self.stats itself.
get_summary_shared(engine_stats) == [id |-> "stats", items |-> engine_stats]

\* CleanupEngine.get_summary.
get_summary(engine_stats) == dict_copy(engine_stats)

\* ------------------------------------------------------------------------
\* CleanupCommand (commands.py)
\* ------------------------------------------------------------------------

\* results.get("issues", []).
get_issues(results) == IF "issues" \in DOMAIN results THEN results.issues ELSE << >>

\* results[key] = value on a result dict.
with_issues(results, issues) ==
    [x \in (DOMAIN results) \cup {"issues"} |-> IF x = "issues" THEN issues ELSE results[x]]

\* A filter that keeps every issue once debug or todos is set.
filter_issues_any(issues, debug, todos) ==
    SelectSeq(issues, LAMBDA issue : debug \/ todos)

\* The filter loop of _process_file (commands.py 154-160).
filter_issues(issues, debug, todos) ==
    SelectSeq(issues, LAMBDA issue :
        IF debug /\ issue.type = "debug"
        THEN TRUE
        ELSE todos /\ issue.type = "todo")

UnusedIssue(imp) == [type |-> "unused_import", content |-> <<"Unused import: ", imp>>]

\* The filtering step of _process_file on the analysis of the file
\* (commands.py 149-160).
filter_results(analysis, debug, todos, unused) ==
    IF ~debug /\ ~todos /\ ~unused
    THEN analysis
    ELSE with_issues(analysis, filter_issues(get_issues(analysis), debug, todos))

\* The loop of _process_file over the unused imports found, appending to
\* results["issues"] (commands.py 165-169): the dict, or the KeyError raised
\* when it has no such key.
append_unused(filtered, unused_imports) ==
    IF unused_imports = << >>
    THEN [raised |-> None, results |-> filtered]
    ELSE IF "issues" \notin DOMAIN filtered
         THEN [raised |-> "KeyError", results |-> filtered]
         ELSE [raised |-> None,
               results |->
                   with_issues(filtered,
                               filtered.issues
                                   \o [i \in DOMAIN unused_imports |->
                                          UnusedIssue(unused_imports[i])])]

\* CleanupCommand._process_file: the result dict, or the exception raised.
process_file(fsys, pats, seed, file_path, debug, todos, unused, test_mode) ==
    append_unused(filter_results(analyze(fsys, pats, file_path), debug, todos, unused),
                  IF unused /\ endswith(file_path, ExtPy)
                  THEN find_unused_imports(fsys, file_path, seed)
                  ELSE << >>)

\* CleanupCommand._get_all_files.
get_all_files(fsys, walk) ==
    LET kept == SelectSeq(walk, LAMBDA q : path_exists(fsys, q) /\ ~is_excluded(path_str(q)))
    IN  [i \in DOMAIN kept |-> path_str(kept[i])]

\* CleanupCommand._get_target_files, for the callers that pass files or
\* all_files (staged and modified are left False); files is << >> for a
\* call that passes None or an empty list.
get_target_files(fsys, walk, files, all_files) ==
    IF files # << >>
    THEN files
    ELSE IF all_files THEN get_all_files(fsys, walk) ELSE << >>

\* results["details"].append(file_results) and the count of its issues
\* (commands.py 62-64), or the exception _process_file raised.
add_details(results, r) ==
    IF r.raised # None
    THEN [results EXCEPT !.raised = r.raised]
    ELSE [results EXCEPT
             !.details = Append(@, r.results),
             !.issues_found = @ + Len(get_issues(r.results))]

\* A loop that leaves at the first file whose analysis reports an error,
\* keeping that entry and dropping the files after it.
RECURSIVE run_loop_abort(_, _, _, _, _, _, _, _, _, _, _)
run_loop_abort(fsys, pats, seed, target_files, k, debug, todos, unused, test_mode, language, results) ==
    IF \/ k > Len(target_files)
       \/ results.raised # None
       \/ \E i \in DOMAIN results.details : "error" \in DOMAIN results.details[i]
    THEN results
    ELSE IF language # None /\ ~matches_language(target_files[k], language)
         THEN run_loop_abort(fsys, pats, seed, target_files, k + 1, debug, todos, unused,
                             test_mode, language, results)
         ELSE run_loop_abort(fsys, pats, seed, target_files, k + 1, debug, todos, unused,
                             test_mode, language,
                             add_details(results,
                                         process_file(fsys, pats, seed, target_files[k],
                                                      debug, todos, unused, test_mode)))

\* The loop of run over the target files k.. (commands.py 51-64).
RECURSIVE run_loop(_, _, _, _, _, _, _, _, _, _, _)
run_loop(fsys, pats, seed, target_files, k, debug, todos, unused, test_mode, language, results) ==
    IF k > Len(target_files) \/ results.raised # None
    THEN results
    ELSE IF language # None /\ ~matches_language(target_files[k], language)
         THEN run_loop(fsys, pats, seed, target_files, k + 1, debug, todos, unused,
                       test_mode, language, results)
         ELSE run_loop(fsys, pats, seed, target_files, k + 1, debug, todos, unused,
                       test_mode, language,
                       add_details(results,
                                   process_file(fsys, pats, seed, target_files[k], debug,
                                                todos, unused, test_mode)))

\* The results dict of run as first built (commands.py 43-48); raised
\* notes an exception leaving the loop.
new_results(target_files) ==
    [raised |-> None, files_analyzed |-> Len(target_files), issues_found |-> 0,
     issues_fixed |-> 0, details |-> << >>]

\* The end of run after the loop (commands.py 66-74): the duplicates when
\* asked for and the summary of the engine.
finish_run(fsys, engine_stats, seed, walk, duplicates, looped) ==
    IF looped.raised # None
    THEN [raised |-> looped.raised]
    ELSE [files_analyzed |-> looped.files_analyzed,
          issues_found |-> looped.issues_found,
          issues_fixed |-> looped.issues_fixed,
          details |-> looped.details,
          summary |-> get_summary(engine_stats).items]
         @@ (IF duplicates
             THEN [duplicates |-> find_duplicates(fsys, walk, seed)]
             ELSE << >>)

\* A run without the early return for an empty target list.
run_targets_unguarded(fsys, pats, engine_stats, seed, walk, target_files, debug, todos, duplicates, unused, test_mode, language) ==
    finish_run(fsys, engine_stats, seed, walk, duplicates,
               run_loop(fsys, pats, seed, target_files, 1, debug, todos, unused, test_mode,
                        language, new_results(target_files)))

\* CleanupCommand.run from the target files on (commands.py 40-74).
run_targets(fsys, pats, engine_stats, seed, walk, target_files, debug, todos, duplicates, unused, test_mode, language) ==
    IF target_files = << >>
    THEN [error |-> "No files to process"]
    ELSE finish_run(fsys, engine_stats, seed, walk, duplicates,
                    run_loop(fsys, pats, seed, target_files, 1, debug, todos, unused,
                             test_mode, language, new_results(target_files)))

\* CleanupCommand.run: the value returned, or [raised |-> exception].
run(fsys, pats, engine_stats, seed, walk, files, all_files, debug, todos, duplicates, unused, test_mode, language) ==
    run_targets(fsys, pats, engine_stats, seed, walk,
                get_target_files(fsys, walk, files, all_files), debug, todos, duplicates,
                unused, test_mode, language)

\* ------------------------------------------------------------------------
\* State
\* ------------------------------------------------------------------------

VARIABLES
    fs,        \* the files on disk: path -> [exists, readable, content]
    patterns,  \* PatternMatcher.patterns of the analyzer
    stats,     \* CleanupEngine.stats
    opened,    \* the paths CleanupEngine opened during the last call
    call,      \* the last call made: its name and arguments
    ret,       \* what that call returned
    config,    \* the CleanupConfig of the engine
    threads,   \* the worker threads inside analyze_file, << >> when none run
    held,      \* the returned value a caller has kept
    calls      \* the calls of the engine so far: made, and ended in a result

vars == << fs, patterns, stats, opened, call, ret, config, threads, held, calls >>

\* ------------------------------------------------------------------------
\* Inputs of the PatternMatcher specification
\* ------------------------------------------------------------------------

\* Longest content, in pieces, and most patterns registered at run time.
MaxLines == 2
MaxRegs == 1

SampleLines ==
    { <<" ", "p", "r", "i", "n", "t", "(", "1", ")">>,
      <<"#", " ", "T", "O", "D", "O", ":", " ", "a", "\r">>,
      <<"/", "/", "t", "o", "d", "o", ":", "#", "X", "X", "X", ":">>,
      <<"C", "U", "S", "T", "O", "M", ":", " ", "p", "r", "i", "n", "t", " ", "(">> }

LineEnds == { <<"\n">>, << >> }

Pieces == { l \o e : l \in SampleLines, e \in LineEnds }

RECURSIVE ContentsUpTo(_)
ContentsUpTo(n) ==
    IF n = 0
    THEN { << >> }
    ELSE LET S == ContentsUpTo(n - 1) IN S \cup { c \o p : c \in S, p \in Pieces }

Contents == ContentsUpTo(MaxLines)

ScanTypes == {"debug", "todo", "custom"}
ScanLanguages == {None, "python", "unknown"}
CustomTexts == {"CUSTOM:", "print\\s*\\("}

\* Number of pattern texts a patterns dictionary holds.
RECURSIVE SumOver(_, _)
SumOver(f, S) ==
    IF S = {} THEN 0 ELSE LET x == CHOOSE x \in S : TRUE IN f[x] + SumOver(f, S \ {x})

BucketSize(b) ==
    IF b.kind = "list"
    THEN Len(b.l)
    ELSE SumOver([g \in DOMAIN b.d |-> Len(b.d[g])], DOMAIN b.d)

NumPatterns(pats) == SumOver([c \in DOMAIN pats |-> BucketSize(pats[c])], DOMAIN pats)

\* ------------------------------------------------------------------------
\* PatternMatcher: specification
\* ------------------------------------------------------------------------

ZeroStats ==
    [files_processed |-> 0, issues_found |-> 0, issues_fixed |-> 0,
     debug_statements |-> 0, todos |-> 0, duplicates |-> 0]

NoCall == [op |-> "none"]

\* No returned value is kept.
NoHeld == [call |-> NoCall, ret |-> None, made |-> 0]

ZeroCalls == [made |-> 0, succeeded |-> 0]

InitMatcher ==
    /\ fs = << >>
    /\ patterns = DefaultPatterns
    /\ stats = ZeroStats
    /\ opened = << >>
    /\ call = NoCall
    /\ ret = None
    /\ config = DefaultConfig
    /\ threads = << >>
    /\ held = NoHeld
    /\ calls = ZeroCalls

\* The caller takes the returned value; the next call can be made.
Return ==
    /\ call # NoCall
    /\ call' = NoCall
    /\ ret' = None
    /\ opened' = << >>
    /\ UNCHANGED << fs, patterns, stats, config, threads, held, calls >>

\* The call of PatternMatcher.find_patterns with the given arguments.
FindPatternsCall(content, pattern_type, language) ==
    /\ call' = [op |-> "find_patterns", content |-> content,
                pattern_type |-> pattern_type, language |-> language]
    /\ ret' = find_patterns(patterns, content, pattern_type, language)
    /\ patterns' = registry_after_find(patterns, pattern_type, language)
    /\ UNCHANGED << fs, stats, opened, config, threads, held, calls >>

FindPatterns ==
    /\ call = NoCall
    /\ \E content \in Contents, pattern_type \in ScanTypes, language \in ScanLanguages :
          FindPatternsCall(content, pattern_type, language)

\* The call c of add_custom_pattern has left r: the patterns and the
\* exception raised.
Registered(c, r) ==
    /\ NumPatterns(r.patterns) <= NumPatterns(DefaultPatterns) + MaxRegs
    /\ call' = c
    /\ patterns' = r.patterns
    /\ ret' = [raised |-> r.raised]
    /\ UNCHANGED << fs, stats, opened, config, threads, held, calls >>

AddCustomPattern ==
    /\ call = NoCall
    /\ \E pattern_type \in ScanTypes, pattern \in CustomTexts, language \in ScanLanguages :
          Registered([op |-> "add_custom_pattern", pattern_type |-> pattern_type,
                      pattern |-> pattern, language |-> language],
                     add_custom_pattern(patterns, pattern_type, pattern, language))

NextMatcher == FindPatterns \/ AddCustomPattern \/ Return

SpecMatcher == InitMatcher /\ [][NextMatcher]_vars

\* ------------------------------------------------------------------------
\* PatternMatcher: properties
\* ------------------------------------------------------------------------

\* Position j of the content ends a physical line.
EndsLine(c, j) == c[j] = "\n" \/ (c[j] = "\r" /\ ~(j < Len(c) /\ c[j + 1] = "\n"))

\* The 1-based number of the physical line position j of the content is on.
LineNo(c, j) == 1 + Cardinality({m \in 1..(j - 1) : EndsLine(c, m)})

NumLines(c) == IF c = << >> THEN 0 ELSE LineNo(c, Len(c))

\* The text of physical line n, without its line ending.
LineText(c, n) ==
    LET P == {j \in 1..Len(c) : LineNo(c, j) = n /\ ~IsLineBreak(c[j])}
        first == CHOOSE j \in P : \A m \in P : j <= m
    IN  [i \in 1..Cardinality(P) |-> c[first + i - 1]]

Occurrences(P, p) == Cardinality({k \in DOMAIN P : P[k] = p})

\* C1: find_patterns returns, for every entry of the selected pattern list
\* and every physical line of the content, one record carrying that line's
\* 1-based number when the pattern is found in the line (case-insensitive
\* search), and no record otherwise; it returns no other record.
Thm_C1_OneRecordPerPatternAndLine ==
    call.op = "find_patterns" =>
        LET c == call.content
            P == selected_patterns(patterns, call.pattern_type, call.language)
        IN  /\ \A r \in DOMAIN ret :
                  /\ ret[r].line \in 1..NumLines(c)
                  /\ \E k \in DOMAIN P : P[k] = ret[r].pattern
            /\ \A k \in DOMAIN P, n \in 1..NumLines(c) :
                  Cardinality({r \in DOMAIN ret :
                                  ret[r].pattern = P[k] /\ ret[r].line = n})
                    = IF search(compile(P[k]), LineText(c, n), TRUE)
                      THEN Occurrences(P, P[k])
                      ELSE 0

\* A scan in which one line matched two patterns, a pattern matched two
\* lines and some line matched nothing.
Wit_C1_TwoPatternsTwoLines ==
    /\ call.op = "find_patterns"
    /\ \E a, b \in DOMAIN ret :
          ret[a].line = ret[b].line /\ ret[a].pattern # ret[b].pattern
    /\ \E a, b \in DOMAIN ret :
          ret[a].line # ret[b].line /\ ret[a].pattern = ret[b].pattern
    /\ \E r \in DOMAIN ret : ret[r].line = 2
    /\ \E k \in DOMAIN selected_patterns(patterns, call.pattern_type, call.language) :
          \A r \in DOMAIN ret :
              ret[r].pattern # selected_patterns(patterns, call.pattern_type,
                                                 call.language)[k]

\* C2 as stated: the records of a scan appear in input line order.
Orig_C2_LineOrder ==
    call.op = "find_patterns" =>
        \A a, b \in DOMAIN ret : a < b => ret[a].line <= ret[b].line

\* The records r.. of M are those of the entries k.. of the pattern list P,
\* entry after entry, each entry's records in increasing line order.
RECURSIVE PatternMajor(_, _, _, _, _)
PatternMajor(M, P, r, k, last) ==
    IF r > Len(M)
    THEN TRUE
    ELSE \E k2 \in k..Len(P) :
            /\ P[k2] = M[r].pattern
            /\ k2 > k \/ M[r].line > last
            /\ PatternMajor(M, P, r + 1, k2, M[r].line)

\* C2 (amended): the records of a scan are ordered by pattern entry first,
\* in pattern list order, and by increasing line number within one entry.
Thm_C2_PatternOrderThenLineOrder ==
    call.op = "find_patterns" =>
        PatternMajor(ret, selected_patterns(patterns, call.pattern_type, call.language),
                     1, 1, 0)

\* A scan whose record for an earlier pattern is on a later line than its
\* record for a later pattern.
Wit_C2_LaterLineFirst ==
    /\ call.op = "find_patterns"
    /\ \E a, b \in DOMAIN ret :
          a < b /\ ret[a].line > ret[b].line /\ ret[a].pattern # ret[b].pattern

\* The bucket add_custom_pattern is to append to, an absent one read as empty.
BucketOf(pats, pattern_type, language) ==
    IF pattern_type \notin DOMAIN pats
    THEN << >>
    ELSE IF language = None
         THEN pats[pattern_type].l
         ELSE dict_get(pats[pattern_type].d, language, << >>)

\* C10 as stated: every add_custom_pattern call returns without an error
\* and leaves the relevant bucket as it was, with the pattern appended.
Orig_C10_RegisterAlwaysAppends ==
    [][call'.op = "add_custom_pattern" =>
          /\ ret'.raised = None
          /\ BucketOf(patterns', call'.pattern_type, call'.language)
               = Append(BucketOf(patterns, call'.pattern_type, call'.language),
                        call'.pattern)]_vars

\* ------------------------------------------------------------------------
\* CleanupCommand: specification
\* ------------------------------------------------------------------------

\* Longest explicit file list, and most files missing or unreadable.
MaxFiles == 2
MaxBad == 1

\* The disks: every file present and readable, but for at most MaxBad files
\* that are missing or cannot be read.
Disks ==
    { [p \in Paths |-> IF p \in DOMAIN bad
                       THEN (IF bad[p] = "missing" THEN Missing ELSE Unreadable(p))
                       ELSE Present(p)]
      : bad \in UNION { [B -> {"missing", "unreadable"}]
                        : B \in {X \in SUBSET Paths : Cardinality(X) <= MaxBad} } }

\* All orders of a set of paths.
RECURSIVE Perms(_)
Perms(S) ==
    IF S = {} THEN { << >> } ELSE UNION { { << x >> \o t : t \in Perms(S \ {x}) } : x \in S }

\* The orders in which rglob("*") can yield the files of the working
\* directory: the entries of the directory itself, in any order, before
\* those of its subdirectories.
Walks(fsys) ==
    { a \o b : a \in Perms({q \in TopPaths : path_exists(fsys, q)}),
               b \in Perms({q \in SubPaths : path_exists(fsys, q)}) }

FileLists == UNION { [1..n -> Paths] : n \in 1..MaxFiles }

\* files and all_files as passed to run.
Targets ==
    [files : FileLists, all_files : {FALSE}]
    \cup [files : {<< >>}, all_files : BOOLEAN]

RunLanguages == {None, "python", "javascript"}

InitRun ==
    /\ fs \in Disks
    /\ patterns = DefaultPatterns
    /\ stats = ZeroStats
    /\ opened = << >>
    /\ call = NoCall
    /\ ret = None
    /\ config = DefaultConfig
    /\ threads = << >>
    /\ held = NoHeld
    /\ calls = ZeroCalls

\* The disk after the fixing branch of _process_file has been gone through
\* for each entry of details from k on (commands.py 171-174).
RECURSIVE disk_after_fixes(_, _, _, _, _)
disk_after_fixes(cfg, fsys, test_mode, details, k) ==
    IF k > Len(details)
    THEN fsys
    ELSE disk_after_fixes(cfg, apply_fixes(cfg, fsys, ~test_mode, details[k]), test_mode,
                          details, k + 1)

\* The disk run leaves behind, given the value it returned.
disk_after_run(cfg, fsys, test_mode, returned) ==
    IF "details" \in DOMAIN returned
    THEN disk_after_fixes(cfg, fsys, test_mode, returned.details, 1)
    ELSE fsys

\* The call of CleanupCommand.run on the targets t with the given options;
\* seed and walk are what the process and the directory give where the call
\* depends on them.
RunCall(t, debug, todos, duplicates, unused, test_mode, language, seed, walk) ==
    /\ call' = [op |-> "run", files |-> t.files, all_files |-> t.all_files,
                debug |-> debug, todos |-> todos, duplicates |-> duplicates,
                unused |-> unused, test_mode |-> test_mode,
                language |-> language, seed |-> seed, walk |-> walk]
    /\ ret' = run(fs, patterns, stats, seed, walk, t.files, t.all_files, debug,
                  todos, duplicates, unused, test_mode, language)
    /\ fs' = disk_after_run(config, fs, test_mode, ret')
    /\ UNCHANGED << patterns, stats, opened, config, threads, held, calls >>

\* One call of CleanupCommand.run.
Run ==
    /\ call = NoCall
    /\ \E t \in Targets, debug \in BOOLEAN, todos \in BOOLEAN, duplicates \in BOOLEAN,
          unused \in BOOLEAN, test_mode \in BOOLEAN, language \in RunLanguages :
          \E seed \in IF unused THEN Seeds ELSE {0},
             walk \in IF duplicates \/ t.all_files
                      THEN Walks(fs)
                      ELSE {CHOOSE w \in Walks(fs) : TRUE} :
              RunCall(t, debug, todos, duplicates, unused, test_mode, language, seed, walk)

NextRun == Run \/ Return

Spec == InitRun /\ [][NextRun]_vars

\* ------------------------------------------------------------------------
\* The CleanupEngine specification
\* ------------------------------------------------------------------------

\* Calls are made while fewer than MaxProcessed files have been processed.
MaxProcessed == 3

Directories == { <<".">>, <<".", "g", "i", "t">> }

\* Most calls made on one engine.
MaxCalls == 3

\* The configs an engine is built with: as seeded, with auto_fix on, with a
\* python debug pattern that does not compile, and with a user-added
\* exclusion rule.
Configs ==
    { DefaultConfig,
      [DefaultConfig EXCEPT !.auto_fix = TRUE],
      [DefaultConfig EXCEPT !.debug_patterns["python"] = <<"print\\(", BadRegex>>],
      [DefaultConfig EXCEPT !.exclude_patterns = Append(@, <<"b", ".">>)] }

InitEngine ==
    /\ fs \in Disks
    /\ patterns = DefaultPatterns
    /\ stats = ZeroStats
    /\ opened = << >>
    /\ call = NoCall
    /\ ret = None
    /\ config \in Configs
    /\ threads = << >>
    /\ held = NoHeld
    /\ calls = ZeroCalls

\* The analyze_file calls behind the value returned to call c that ended in
\* a result: neither skipped nor with an error. analyze_directory returns
\* the list of the results that are not skipped.
ended_in_result(c, results) ==
    IF c.op = "analyze_directory"
    THEN Cardinality({i \in DOMAIN results : "error" \notin DOMAIN results[i]})
    ELSE IF "skipped" \in DOMAIN results \/ "error" \in DOMAIN results THEN 0 ELSE 1

\* The call c of the engine has left r: the value returned, the stats and
\* the paths opened.
EngineCall(c, r) ==
    /\ call' = c
    /\ ret' = r.results
    /\ stats' = r.stats
    /\ opened' = r.opened
    /\ calls' = [made |-> calls.made + 1,
                 succeeded |-> calls.succeeded + ended_in_result(c, r.results)]
    /\ UNCHANGED << patterns, config, threads, held >>

AnalyzeFile ==
    /\ call = NoCall
    /\ stats.files_processed < MaxProcessed
    /\ calls.made < MaxCalls
    /\ fs' = fs
    /\ \E file_path \in Paths :
          EngineCall([op |-> "analyze_file", file_path |-> file_path],
                     analyze_file(config, fs, stats, file_path))

AnalyzeDirectory ==
    /\ call = NoCall
    /\ stats.files_processed < MaxProcessed
    /\ calls.made < MaxCalls
    /\ fs' = fs
    /\ \E directory \in Directories, walk \in Walks(fs) :
          EngineCall([op |-> "analyze_directory", directory |-> directory, walk |-> walk],
                     analyze_directory(config, fs, stats, directory, walk))

\* The call c of cleanup_file has left r, with the disk the fixing branch
\* leaves.
CleanupCall(c, r) ==
    /\ fs' = r.fs
    /\ EngineCall(c, r)

CleanupFile ==
    /\ call = NoCall
    /\ stats.files_processed < MaxProcessed
    /\ calls.made < MaxCalls
    /\ \E file_path \in Paths, fix \in BOOLEAN :
          CleanupCall([op |-> "cleanup_file", file_path |-> file_path, fix |-> fix],
                      cleanup_file(config, fs, stats, file_path, fix))

GetSummary ==
    /\ call = NoCall
    /\ call' = [op |-> "get_summary"]
    /\ ret' = get_summary(stats)
    /\ UNCHANGED << fs, patterns, stats, opened, config, threads, held, calls >>

NextEngine == AnalyzeFile \/ AnalyzeDirectory \/ CleanupFile \/ GetSummary \/ Return

SpecEngine == InitEngine /\ [][NextEngine]_vars

\* ------------------------------------------------------------------------
\* Properties of CleanupCommand.run

\* A call of run has been made and its value is in ret.
RunDone == call.op = "run"

\* The target files of the call made.
RunTargets ==
    IF RunDone THEN get_target_files(fs, call.walk, call.files, call.all_files) ELSE << >>

\* The targets the loop hands to _process_file, in order: those the
\* language filter lets through.
RunAnalyzed ==
    SelectSeq(RunTargets, LAMBDA q : call.language = None \/ matches_language(q, call.language))

\* The call returned the result dict of a run over some files.
HasDetails == RunDone /\ "details" \in DOMAIN ret

\* The keys of a run summary.
SummaryKeys == {"files_analyzed", "issues_found", "issues_fixed", "details", "summary"}

\* The value of a per-file count of a details entry (0 when it has none).
Metric(d, k) ==
    IF "metrics" \in DOMAIN d /\ k \in DOMAIN d.metrics THEN d.metrics[k] ELSE 0

\* The sum of the numbers of a sequence.
SeqSum(s) == SumOver(s, DOMAIN s)

\* The file is missing or cannot be read.
Failing(q) == ~can_read(fs, q)

\* What _process_file gives for a target under the options of the call made.
Processed(q) ==
    process_file(fs, patterns, call.seed, q, call.debug, call.todos, call.unused,
                 call.test_mode).results

\* C3 (as stated): after run returns, the summary snapshot has
\* files_processed equal to the number of files analyzed, and issues_found,
\* debug_statements and todos equal to the sums of the per-file counts in
\* details.
Orig_C3_SummaryAccumulates ==
    HasDetails =>
        /\ ret.summary.files_processed = Len(ret.details)
        /\ ret.summary.issues_found
               = SeqSum([i \in DOMAIN ret.details |-> Len(get_issues(ret.details[i]))])
        /\ ret.summary.debug_statements
               = SeqSum([i \in DOMAIN ret.details |-> Metric(ret.details[i], "debug_statements")])
        /\ ret.summary.todos
               = SeqSum([i \in DOMAIN ret.details |-> Metric(ret.details[i], "todos")])

\* C4 (as stated): a target path that matches an exclusion rule is never
\* handed to the analyzer: the entries of details are those of the targets
\* that match no exclusion rule, and issues_found counts their issues only.
Orig_C4_ExcludedTargetsSkipped ==
    HasDetails =>
        LET kept == SelectSeq(RunAnalyzed, LAMBDA q : ~is_excluded(path_str(q))) IN
        /\ Len(ret.details) = Len(kept)
        /\ ret.issues_found = SeqSum([i \in DOMAIN kept |-> Len(get_issues(Processed(kept[i])))])

\* C6 (as stated): for every target list, an empty one included, run
\* returns a value with files_analyzed, issues_found, issues_fixed, details
\* and the statistics snapshot, and never raises.
Orig_C6_AlwaysSummary ==
    RunDone => SummaryKeys \subseteq DOMAIN ret

\* C6 (amended): run never raises; for a non-empty target list it returns a
\* value with files_analyzed (the length of the list), issues_found,
\* issues_fixed (0), details and the statistics snapshot; for an empty
\* target list it returns the error value "No files to process" and none
\* of those keys.
Thm_C6_SummaryUnlessNoTargets ==
    RunDone =>
        /\ "raised" \notin DOMAIN ret
        /\ IF RunTargets = << >>
           THEN ret = [error |-> "No files to process"]
           ELSE /\ SummaryKeys \subseteq DOMAIN ret
                /\ "error" \notin DOMAIN ret
                /\ ret.files_analyzed = Len(RunTargets)
                /\ ret.issues_fixed = 0
                /\ ret.summary = stats

\* A run with no target at all has returned the error value, not a summary.
Wit_C6_EmptyTargetList ==
    /\ RunDone
    /\ call.files = << >>
    /\ ~call.all_files
    /\ call.unused
    /\ RunTargets = << >>
    /\ ret = [error |-> "No files to process"]

\* C7: per-file failures are isolated in a multi-file run: every target the
\* language filter lets through has its entry in details, the entry of a
\* missing or unreadable file carries an error string, and the entries of
\* the other files are what a run without the failing files in the list
\* gives.
Thm_C7_FailuresIsolated ==
    HasDetails =>
        LET good == SelectSeq(RunTargets, LAMBDA q : ~Failing(q))
            without == run(fs, patterns, stats, call.seed, call.walk, good, FALSE, call.debug,
                           call.todos, FALSE, call.unused, call.test_mode, call.language)
        IN  /\ Len(ret.details) = Len(RunAnalyzed)
            /\ \A i \in DOMAIN RunAnalyzed :
                  Failing(RunAnalyzed[i]) =>
                      /\ "error" \in DOMAIN ret.details[i]
                      /\ ret.details[i].error
                           = IF path_exists(fs, RunAnalyzed[i])
                             THEN read_error(fs, RunAnalyzed[i])
                             ELSE "File not found"
            /\ LET idx == SelectSeq([i \in DOMAIN ret.details |-> i],
                                    LAMBDA i : ~Failing(RunAnalyzed[i]))
               IN  [j \in DOMAIN idx |-> ret.details[idx[j]]]
                      = IF good = << >> THEN << >> ELSE without.details

\* A run over a failing file followed by a readable one has returned an
\* entry with an error for the first and an entry with issues for the second.
Wit_C7_FailingThenReadable ==
    /\ HasDetails
    /\ Len(call.files) = 2
    /\ Failing(call.files[1])
    /\ ~Failing(call.files[2])
    /\ Len(ret.details) = 2
    /\ "error" \in DOMAIN ret.details[1]
    /\ "error" \notin DOMAIN ret.details[2]
    /\ get_issues(ret.details[2]) # << >>

\* C8: category filtering in run: with none of debug/todos/unused set each
\* entry of details is the analysis of its file unfiltered; with at least
\* one set, the pattern-derived issues of an entry are exactly the issues of
\* the analysis whose category flag is set (debug if debug, todo if todos),
\* in their order in the analysis.
Thm_C8_CategoryFiltering ==
    HasDetails =>
        /\ Len(ret.details) = Len(RunAnalyzed)
        /\ \A i \in DOMAIN ret.details :
              LET analysis == analyze(fs, patterns, RunAnalyzed[i])
                  pattern_issues ==
                      SelectSeq(get_issues(ret.details[i]),
                                LAMBDA x : x.type # "unused_import")
              IN  IF ~call.debug /\ ~call.todos /\ ~call.unused
                  THEN ret.details[i] = analysis
                  ELSE pattern_issues
                          = SelectSeq(get_issues(analysis),
                                      LAMBDA x : \/ x.type = "debug" /\ call.debug
                                                 \/ x.type = "todo" /\ call.todos)

\* A run with debug set and todos unset over a file that has issues of both
\* categories has returned the debug issues of the file and no todo issue.
Wit_C8_DebugOnly ==
    /\ HasDetails
    /\ call.debug
    /\ ~call.todos
    /\ Len(ret.details) = Len(RunAnalyzed)
    /\ \E i \in DOMAIN ret.details :
          LET all_issues == get_issues(analyze(fs, patterns, RunAnalyzed[i])) IN
          /\ \E j \in DOMAIN all_issues : all_issues[j].type = "debug"
          /\ \E j \in DOMAIN all_issues : all_issues[j].type = "todo"
          /\ \E j \in DOMAIN ret.details[i].issues : ret.details[i].issues[j].type = "debug"
          /\ \A j \in DOMAIN ret.details[i].issues : ret.details[i].issues[j].type # "todo"

\* C9 (as stated): with unused set, the issue list of every file classified
\* as python ends with exactly one unused_import record per name the
\* unused-import analysis returns, and the issue list of a file of any other
\* language has no unused_import record.
Orig_C9_UnusedImportsForPythonOnly ==
    (HasDetails /\ call.unused) =>
        /\ Len(ret.details) = Len(RunAnalyzed)
        /\ \A i \in DOMAIN ret.details :
              LET file_path == RunAnalyzed[i]
                  issues == get_issues(ret.details[i])
                  names == find_unused_imports(fs, file_path, call.seed)
                  records == SelectSeq(issues, LAMBDA x : x.type = "unused_import")
              IN  IF detect_language(file_path) = "python"
                  THEN /\ Len(records) = Len(names)
                       /\ Len(issues) >= Len(names)
                       /\ SubSeq(issues, Len(issues) - Len(names) + 1, Len(issues))
                             = [j \in DOMAIN names |-> UnusedIssue(names[j])]
                  ELSE records = << >>

\* ------------------------------------------------------------------------
\* Properties of CleanupEngine

Skipped == [skipped |-> TRUE, reason |-> "excluded"]

\* C5: analyze_file checks exclusion before any read: for a path matching an
\* exclusion rule it returns the skipped/excluded result, opens no file and
\* leaves every counter of the statistics as it was; analyze_directory
\* returns no entry for such a file and does not open it.
Thm_C5_ExclusionBeforeRead ==
    [][ /\ (call'.op = "analyze_file" /\ call = NoCall /\ excluded_by(config.exclude_patterns, call'.file_path)) =>
              /\ ret' = Skipped
              /\ opened' = << >>
              /\ stats' = stats
        /\ (call'.op = "analyze_directory" /\ call = NoCall) =>
              /\ \A i \in DOMAIN ret' :
                    "skipped" \notin DOMAIN ret'[i] /\ ~excluded_by(config.exclude_patterns, ret'[i].file)
              /\ \A i \in DOMAIN opened' : ~excluded_by(config.exclude_patterns, opened'[i])
              /\ Len(ret') = Len(SelectSeq(rglob_files(fs, call'.directory, call'.walk),
                                           LAMBDA q : ~excluded_by(config.exclude_patterns, q)))
      ]_vars

\* After some file has been processed, analyze_file on an excluded file
\* that is there and readable has returned the skipped result and opened
\* nothing.
Wit_C5_ExcludedReadableFile ==
    /\ call.op = "analyze_file"
    /\ excluded_by(config.exclude_patterns, call.file_path)
    /\ can_open(fs, call.file_path)
    /\ stats.files_processed > 0
    /\ ret = Skipped
    /\ opened = << >>

\* ------------------------------------------------------------------------
\* Properties of PatternMatcher: patterns registered at runtime
\* ------------------------------------------------------------------------

\* The entries add_custom_pattern has appended to the bucket of a category
\* and language since construction.
RegisteredAtRuntime(pats, pattern_type, language) ==
    LET B == BucketOf(pats, pattern_type, language)
        n == Len(BucketOf(DefaultPatterns, pattern_type, language))
    IN  {B[k] : k \in (n + 1)..Len(B)}

\* C11 as stated: a find_patterns call for a category and language emits a
\* record for every line that matches a pattern registered at runtime for
\* that category and language, whatever the category is.
Orig_C11_RegisteredPatternsScanned ==
    call.op = "find_patterns" =>
        \A p \in RegisteredAtRuntime(patterns, call.pattern_type, call.language) :
            \A n \in 1..NumLines(call.content) :
                search(compile(p), LineText(call.content, n), TRUE)
                    => \E r \in DOMAIN ret : ret[r].line = n /\ ret[r].pattern = p

\* ------------------------------------------------------------------------
\* CodeAnalyzer: specification
\* ------------------------------------------------------------------------

\* File contents as bytes on disk: one debug line ending in "\n", the same
\* line ending in "\r\n", and a text with an empty line, a whitespace line,
\* a TODO comment and a debug line.
TextPrintLF == <<"p", "r", "i", "n", "t", "(", "1", ")", "\n">>
TextPrintCRLF == <<"p", "r", "i", "n", "t", "(", "1", ")", "\r", "\n">>
TextMixed ==
    <<"\n", " ", "\t", "\n", "#", " ", "T", "O", "D", "O", ":", " ", "x", "\n",
      "p", "r", "i", "n", "t", "(", "1", ")", "\n">>
TextJs == FileContent[PathB]

\* The contents each path can hold.
TextChoices ==
    [p \in Paths |->
        CASE p = PathA -> {TextPrintLF, TextMixed}
          [] p = PathDot -> {TextMixed, TextPrintLF}
          [] p = PathB -> {TextJs, TextPrintCRLF}
          [] p = PathGit -> {TextPrintLF, TextPrintCRLF}]

\* A file that is missing, cannot be opened, or holds bytes that are no
\* UTF-8 text.
BadFile(kind, bytes) ==
    CASE kind = "missing" -> Missing
      [] kind = "unreadable" -> [exists |-> TRUE, readable |-> FALSE, content |-> bytes]
      [] kind = "undecodable" ->
           [exists |-> TRUE, readable |-> TRUE, content |-> << BadByte >> \o bytes]

\* The disks the analyzer is run on: every path holds one of its contents,
\* but for at most MaxBad files that are missing, unreadable or undecodable.
AnalyzerDisks ==
    { [p \in Paths |-> IF p \in DOMAIN bad
                       THEN BadFile(bad[p], text[p])
                       ELSE [exists |-> TRUE, readable |-> TRUE, content |-> text[p]]]
      : bad \in UNION { [B -> {"missing", "unreadable", "undecodable"}]
                        : B \in {X \in SUBSET Paths : Cardinality(X) <= MaxBad} },
        text \in {t \in [Paths -> UNION {TextChoices[p] : p \in Paths}] :
                     \A p \in Paths : t[p] \in TextChoices[p]} }

InitAnalyzer ==
    /\ fs \in AnalyzerDisks
    /\ patterns = DefaultPatterns
    /\ stats = ZeroStats
    /\ opened = << >>
    /\ call = NoCall
    /\ ret = None
    /\ config = DefaultConfig
    /\ threads = << >>
    /\ held = NoHeld
    /\ calls = ZeroCalls

\* The call of CodeAnalyzer.analyze on file_path.
AnalyzeCall(file_path) ==
    /\ call' = [op |-> "analyze", file_path |-> file_path]
    /\ ret' = analyze(fs, patterns, file_path)
    /\ patterns' = registry_after_analyze(fs, patterns, file_path)
    /\ UNCHANGED << fs, stats, opened, config, threads, held >>

\* One call of CodeAnalyzer.analyze.
Analyze ==
    /\ call = NoCall
    /\ calls' = calls
    /\ \E file_path \in Paths : AnalyzeCall(file_path)

\* One call of CodeAnalyzer.find_duplicates on the working directory; walk
\* is the order rglob yields its files in and seed the string hashing of the
\* process.
FindDuplicates ==
    /\ call = NoCall
    /\ \E walk \in Walks(fs), seed \in Seeds :
          /\ call' = [op |-> "find_duplicates", walk |-> walk, seed |-> seed]
          /\ ret' = find_duplicates(fs, walk, seed)
          /\ UNCHANGED << fs, patterns, stats, opened, config, threads, held, calls >>

NextAnalyzer == Analyze \/ FindDuplicates \/ AddCustomPattern \/ Return

SpecAnalyzer == InitAnalyzer /\ [][NextAnalyzer]_vars

\* ------------------------------------------------------------------------
\* Properties of CodeAnalyzer.analyze
\* ------------------------------------------------------------------------

\* analyze has returned the result of a file it could read.
Analyzed == call.op = "analyze" /\ can_read(fs, call.file_path)

\* The text analyze read.
AnalyzedText == read_file(fs, call.file_path)

\* The issues of category t in the result of analyze.
IssuesOf(t) == SelectSeq(ret.issues, LAMBDA r : r.type = t)

\* C12: the debug patterns are looked up by language and the todo patterns
\* are not: a debug scan with no language yields no record, and analyze on a
\* file whose language has no debug bucket (unknown, for a path with no
\* extension) reports no debug issue and debug_statements = 0, while every
\* line a todo pattern is found in has its todo issue.
Thm_C12_DebugByLanguageTodoAlways ==
    Analyzed =>
        /\ find_patterns(patterns, AnalyzedText, "debug", None) = << >>
        /\ \A k \in DOMAIN patterns["todo"].l, n \in 1..NumLines(AnalyzedText) :
              search(compile(patterns["todo"].l[k]), LineText(AnalyzedText, n), TRUE)
                  => \E i \in DOMAIN ret.issues :
                        /\ ret.issues[i].type = "todo"
                        /\ ret.issues[i].line = n
                        /\ ret.issues[i].pattern = patterns["todo"].l[k]
        /\ ret.language \notin DOMAIN patterns["debug"].d
              => /\ IssuesOf("debug") = << >>
                 /\ ret.metrics.debug_statements = 0
                 /\ find_patterns(patterns, AnalyzedText, "debug", ret.language) = << >>

\* analyze has returned for a file of unknown language that holds a line a
\* python debug pattern is found in and a TODO comment: the result has the
\* todo issue alone.
Wit_C12_UnknownLanguageTodoOnly ==
    /\ Analyzed
    /\ ret.language = "unknown"
    /\ "unknown" \notin DOMAIN patterns["debug"].d
    /\ \E n \in 1..NumLines(AnalyzedText) :
          search(compile("print\\s*\\("), LineText(AnalyzedText, n), TRUE)
    /\ Len(ret.issues) = 1
    /\ ret.issues[1].type = "todo"
    /\ ret.metrics.debug_statements = 0

\* ------------------------------------------------------------------------
\* Language classification: specification
\* ------------------------------------------------------------------------

\* What comes before the extension: nothing, a plain name, a name in a
\* directory whose own name has a dot, and a name that has a dot already.
ClassifyStems ==
    { << >>, <<"a">>, <<"d", ".", "p", "y", "/", "a">>, <<"a", ".", "j", "s">> }

\* The extensions of both tables, in lower case and not, and some of neither.
ClassifyExts ==
    { << >>, <<".">>, <<".", "p", "y">>, <<".", "P", "Y">>, <<".", "P", "y">>,
      <<".", "j", "s">>, <<".", "J", "s">>, <<".", "j", "s", "x">>, <<".", "t", "s">>,
      <<".", "t", "s", "x">>, <<".", "g", "o">>, <<".", "j", "a", "v", "a">>,
      <<".", "r", "b">>, <<".", "p", "h", "p">>, <<".", "c">>, <<".", "C">>,
      <<".", "c", "p", "p">>, <<".", "c", "s">>, <<".", "r", "s">>,
      <<".", "t", "x", "t">>, <<".", "p", "y", "c">> }

\* The paths classified: those of the working directory and others that
\* are on no disk.
ClassifyPaths == Paths \cup { s \o e : s \in ClassifyStems, e \in ClassifyExts }

InitClassify ==
    /\ fs \in Disks
    /\ patterns = DefaultPatterns
    /\ stats = ZeroStats
    /\ opened = << >>
    /\ call = NoCall
    /\ ret = None
    /\ config = DefaultConfig
    /\ threads = << >>
    /\ held = NoHeld
    /\ calls = ZeroCalls

\* One call of CodeAnalyzer._detect_language.
DetectLanguage ==
    /\ call = NoCall
    /\ \E file_path \in ClassifyPaths :
          /\ call' = [op |-> "detect_language", file_path |-> file_path]
          /\ ret' = detect_language(file_path)
          /\ UNCHANGED << fs, patterns, stats, opened, config, threads, held, calls >>

\* One call of CleanupEngine._detect_language.
EngineDetectLanguage ==
    /\ call = NoCall
    /\ \E file_path \in ClassifyPaths :
          /\ call' = [op |-> "engine_detect_language", file_path |-> file_path]
          /\ ret' = engine_detect_language(file_path)
          /\ UNCHANGED << fs, patterns, stats, opened, config, threads, held, calls >>

NextClassify == DetectLanguage \/ EngineDetectLanguage \/ Return

SpecClassify == InitClassify /\ [][NextClassify]_vars

\* ------------------------------------------------------------------------
\* Properties of language classification
\* ------------------------------------------------------------------------

Classified == call.op \in {"detect_language", "engine_detect_language"}

\* The extension of a path, compared without regard to case.
ExtKey(p) == lower(path_suffix(p))

\* The extensions the table of CodeAnalyzer holds, and those the table of
\* CleanupEngine holds on top of them.
AnalyzerExts ==
    { <<".", "p", "y">>, <<".", "j", "s">>, <<".", "j", "s", "x">>, <<".", "t", "s">>,
      <<".", "t", "s", "x">>, <<".", "g", "o">>, <<".", "j", "a", "v", "a">>,
      <<".", "r", "b">>, <<".", "p", "h", "p">> }
EngineOnlyExts == { <<".", "c">>, <<".", "c", "p", "p">>, <<".", "c", "s">>, <<".", "r", "s">> }

AnalyzerTags == {"python", "javascript", "go", "java", "ruby", "php", "unknown"}
EngineOnlyTags == {"c", "cpp", "csharp", "rust"}

Scanned == call.op = "find_duplicates"

\* The file at position i of the traversal is one find_duplicates reads
\* and fingerprints: a readable, decodable file of a recognized extension.
Fingerprinted(i) ==
    /\ path_exists(fs, call.walk[i])
    /\ lower(path_suffix(call.walk[i])) \in AnalyzerExts
    /\ fs[call.walk[i]].readable
    /\ decodable(fs[call.walk[i]].content)

Fingerprint(i) == hash_file(fs, call.walk[i], call.seed)

\* The positions before i of the fingerprinted files with the fingerprint
\* of the file at i.
EarlierSame(i) ==
    {j \in 1..(i - 1) : Fingerprinted(j) /\ Fingerprint(j) = Fingerprint(i)}

\* The positions of the traversal that are not the first of their
\* fingerprint, in traversal order.
LaterPositions ==
    SelectSeq([i \in DOMAIN call.walk |-> i],
              LAMBDA i : Fingerprinted(i) /\ EarlierSame(i) # {})

\* C14: the first file visited with a fingerprint is the original: the
\* records are, in traversal order, one for each fingerprinted file that is
\* not the first of its fingerprint, with that file as file2 and the first
\* file of the fingerprint as file1; the first file is file2 of no record.
Thm_C14_FirstSeenIsOriginal ==
    Scanned =>
        /\ Len(ret) = Len(LaterPositions)
        /\ \A k \in DOMAIN ret :
              LET i == LaterPositions[k]
                  first == CHOOSE j \in EarlierSame(i) : \A m \in EarlierSame(i) : j <= m
              IN  /\ ret[k].file2 = path_str(call.walk[i])
                  /\ ret[k].file1 = path_str(call.walk[first])
                  /\ ret[k].type = "exact_duplicate"
                  /\ \A r \in DOMAIN ret : ret[r].file2 # path_str(call.walk[first])

\* Three files with one fingerprint have been visited: two records, both
\* with the first file as file1.
Wit_C14_ThreeIdenticalFiles ==
    /\ Scanned
    /\ Len(ret) = 2
    /\ ret[1].file1 = ret[2].file1
    /\ ret[1].file2 # ret[2].file2
    /\ ret[2].file1 # ret[1].file2

\* The path of the working directory a record names.
PathOf(s) == CHOOSE p \in Paths : path_str(p) = s

\* C15 as stated: the two files of every record hold identical content.
Orig_C15_PairsHaveIdenticalContent ==
    Scanned =>
        \A r \in DOMAIN ret :
            fs[PathOf(ret[r].file1)].content = fs[PathOf(ret[r].file2)].content

\* The file at position i of the traversal is one find_duplicates leaves
\* out: its extension is not recognized, or it cannot be read or decoded.
LeftOut(i) ==
    \/ lower(path_suffix(call.walk[i])) \notin AnalyzerExts
    \/ ~fs[call.walk[i]].readable
    \/ ~decodable(fs[call.walk[i]].content)

\* C16: a file with an unrecognized extension and a file that cannot be
\* read or decoded are in no record, as file1 or as file2, and the records
\* returned are those of the scan over the remaining files of the traversal.
Thm_C16_SkippedFilesLeaveNoTrace ==
    Scanned =>
        /\ \A i \in DOMAIN call.walk :
              LeftOut(i) =>
                  \A r \in DOMAIN ret :
                      /\ ret[r].file1 # path_str(call.walk[i])
                      /\ ret[r].file2 # path_str(call.walk[i])
        /\ ret = find_duplicates(
                     fs,
                     SelectSeq(call.walk,
                               LAMBDA q : /\ lower(path_suffix(q)) \in AnalyzerExts
                                          /\ fs[q].readable
                                          /\ decodable(fs[q].content)),
                     call.seed)

\* The traversal began with a code file that cannot be read or decoded and
\* went over a readable file of unrecognized extension, both with the text
\* of two code files visited later: the one record is that of the two.
Wit_C16_SkippedThenPair ==
    /\ Scanned
    /\ Len(call.walk) = 4
    /\ lower(path_suffix(call.walk[1])) \in AnalyzerExts
    /\ ~can_read(fs, call.walk[1])
    /\ can_read(fs, PathDot)
    /\ Len(ret) = 1
    /\ read_file(fs, PathDot) = read_file(fs, PathOf(ret[1].file1))
    /\ read_text(fs[call.walk[1]].content, 1)
         \in { read_file(fs, PathOf(ret[1].file1)),
               << BadByte >> \o read_file(fs, PathOf(ret[1].file1)) }

\* C17: analyze on a path that does not exist returns the result that has
\* the error "File not found" and nothing else (no file, language, issues
\* or metrics), and leaves the files, the pattern registry and the
\* statistics as they were.
Thm_C17_MissingFileNotFound ==
    [][(call'.op = "analyze" /\ ~path_exists(fs, call'.file_path)) =>
          /\ ret' = [error |-> "File not found"]
          /\ fs' = fs
          /\ patterns' = patterns
          /\ stats' = stats
          /\ opened' = << >>]_vars

\* analyze has returned for a missing path after a pattern was registered.
Wit_C17_MissingAfterRegistration ==
    /\ call.op = "analyze"
    /\ ~path_exists(fs, call.file_path)
    /\ patterns # DefaultPatterns
    /\ DOMAIN ret = {"error"}

\* C18: analyze returns a result for every existing file: when the file
\* cannot be opened or its bytes cannot be decoded, the result holds the
\* message of the failure as error, the path as file, the language of the
\* path, and no issue; the result of a file that is read has no error.
Thm_C18_ReadFailureReported ==
    (call.op = "analyze" /\ path_exists(fs, call.file_path)) =>
        /\ {"file", "language", "issues", "metrics"} \subseteq DOMAIN ret
        /\ ret.file = call.file_path
        /\ ret.language \in AnalyzerTags
        /\ ret.language = "unknown" <=> ExtKey(call.file_path) \notin AnalyzerExts
        /\ IF fs[call.file_path].readable /\ decodable(fs[call.file_path].content)
           THEN "error" \notin DOMAIN ret
           ELSE /\ "error" \in DOMAIN ret
                /\ ret.error = IF fs[call.file_path].readable
                               THEN <<"'utf-8' codec can't decode byte 0xff">>
                               ELSE <<"[Errno 13] Permission denied: ", call.file_path>>
                /\ ret.issues = << >>

\* analyze has returned for a python file whose bytes are no UTF-8 text.
Wit_C18_UndecodablePythonFile ==
    /\ call.op = "analyze"
    /\ fs[call.file_path].exists
    /\ fs[call.file_path].readable
    /\ fs[call.file_path].content[1] = BadByte
    /\ ret.language = "python"
    /\ ret.issues = << >>
    /\ "error" \in DOMAIN ret

\* C19: in the result of a file that was read, the issues are of category
\* debug or todo and no todo issue comes before a debug issue, whatever
\* their line numbers.
Thm_C19_DebugBeforeTodo ==
    Analyzed =>
        /\ \A i \in DOMAIN ret.issues : ret.issues[i].type \in {"debug", "todo"}
        /\ \A i, j \in DOMAIN ret.issues :
              (ret.issues[i].type = "todo" /\ ret.issues[j].type = "debug") => j < i

\* analyze has returned for a javascript file with a TODO comment on line 1
\* and console.log on line 2: the debug issue of line 2, then the todo
\* issue of line 1.
Wit_C19_TodoLineBeforeDebugLine ==
    /\ Analyzed
    /\ ret.language = "javascript"
    /\ Len(ret.issues) = 2
    /\ ret.issues[1].type = "debug" /\ ret.issues[1].line = 2
    /\ ret.issues[2].type = "todo" /\ ret.issues[2].line = 1

\* The physical lines of the text read that hold nothing but whitespace.
BlankLines ==
    {n \in 1..NumLines(AnalyzedText) :
        \A j \in DOMAIN LineText(AnalyzedText, n) : IsSpace(LineText(AnalyzedText, n)[j])}

\* C20: in the result of a file that was read, debug_statements and todos
\* are the numbers of debug and of todo issues and add up to the length of
\* issues, total_lines is the number of lines, blank_lines the number of
\* lines of whitespace alone, comment_lines is at most the number of the
\* other lines, and is 0 for a language that has no comment pattern.
Thm_C20_MetricsConsistent ==
    Analyzed =>
        /\ ret.metrics.debug_statements = Len(IssuesOf("debug"))
        /\ ret.metrics.todos = Len(IssuesOf("todo"))
        /\ ret.metrics.debug_statements + ret.metrics.todos = Len(ret.issues)
        /\ ret.metrics.total_lines = NumLines(AnalyzedText)
        /\ ret.metrics.blank_lines = Cardinality(BlankLines)
        /\ ret.metrics.comment_lines
             <= Cardinality((1..NumLines(AnalyzedText)) \ BlankLines)
        /\ ret.language \notin {"python", "javascript", "java", "go"}
              => ret.metrics.comment_lines = 0

\* analyze has returned for a python file with an empty line, a whitespace
\* line, a TODO comment and a debug line.
Wit_C20_MixedPythonFile ==
    /\ Analyzed
    /\ ret.language = "python"
    /\ ret.metrics = [total_lines |-> 4, blank_lines |-> 2, comment_lines |-> 1,
                      debug_statements |-> 1, todos |-> 1]
    /\ Len(ret.issues) = 2

\* ------------------------------------------------------------------------
\* CleanupEngine: the statistics over a sequence of calls
\* ------------------------------------------------------------------------

StatKeys == DOMAIN ZeroStats

\* C22: the statistics only accumulate: no step of analyze_file,
\* analyze_directory, cleanup_file or get_summary on one engine lowers a
\* counter, and issues_fixed stays 0.
Thm_C22_StatsOnlyAccumulate ==
    [][ /\ DOMAIN stats' = StatKeys
        /\ \A k \in StatKeys : stats'[k] >= stats[k]
        /\ stats'.issues_fixed = 0 ]_vars

\* get_summary has been called after two files with issues were processed
\* and one call ended with an error.
Wit_C22_SummaryAfterSeveralCalls ==
    /\ call.op = "get_summary"
    /\ stats.files_processed >= 2
    /\ stats.issues_found >= 3
    /\ calls.made > calls.succeeded
    /\ ret.items = stats

\* C28 as stated: after any sequence of analyze_file/cleanup_file calls,
\* skipped and failing ones included and for any configured debug patterns,
\* issues_found = debug_statements + todos and files_processed is the number
\* of calls that returned a result with neither skipped nor error.
Orig_C28_StatsMutuallyConsistent ==
    /\ stats.issues_found = stats.debug_statements + stats.todos
    /\ stats.files_processed = calls.succeeded

\* ------------------------------------------------------------------------
\* run: the counts returned and the language filter
\* ------------------------------------------------------------------------

\* C27 as stated: files_analyzed of the value run returns is the number of
\* targets handed to the analysis, the length of details, for every target
\* list and language filter, and issues_found is the sum of the lengths of
\* the issue lists in details.
Orig_C27_FilesAnalyzedIsLenDetails ==
    HasDetails =>
        /\ ret.files_analyzed = Len(ret.details)
        /\ ret.issues_found
               = SeqSum([i \in DOMAIN ret.details |-> Len(get_issues(ret.details[i]))])

\* The targets the analyzer's classifier gives the language of the filter.
ClassifiedAs(language) ==
    SelectSeq(RunTargets, LAMBDA q : detect_language(q) = language)

\* C29 as stated: with a language filter set, a target is processed if and
\* only if the analyzer's classifier gives it that language: details holds
\* the results of exactly those targets, in order.
Orig_C29_FilterAgreesWithClassifier ==
    (HasDetails /\ call.language # None) =>
        ret.details = [i \in DOMAIN ClassifiedAs(call.language) |->
                          Processed(ClassifiedAs(call.language)[i])]

\* ------------------------------------------------------------------------
\* CleanupEngine: a caller keeping the value get_summary returned
\* ------------------------------------------------------------------------

\* The keys a caller writes in a dict it was handed, and the value written.
WrittenKeys == {"files_processed", "todos"}
WrittenValue == 7

InitSummary ==
    /\ fs \in Disks
    /\ patterns = DefaultPatterns
    /\ stats = ZeroStats
    /\ opened = << >>
    /\ call = NoCall
    /\ ret = None
    /\ config = DefaultConfig
    /\ threads = << >>
    /\ held = NoHeld
    /\ calls = ZeroCalls

\* The caller keeps the value the last call returned, for later use.
Keep ==
    /\ call # NoCall
    /\ call.op # "caller_writes"
    /\ held.call = NoCall
    /\ held' = [call |-> call, ret |-> ret, made |-> calls.made]
    /\ call' = NoCall
    /\ ret' = None
    /\ opened' = << >>
    /\ UNCHANGED << fs, patterns, stats, config, threads, calls >>

\* The dict a kept summary object stands for: the engine's own stats when
\* the object is that dict, its own items when it is a copy.
HeldSummary == IF held.ret.id = "stats" THEN stats ELSE held.ret.items

\* The caller writes d[key] = value in the summary dict it keeps: the write
\* lands in the object the dict is.
CallerWrites ==
    /\ call = NoCall
    /\ held.call.op = "get_summary"
    /\ \E key \in WrittenKeys :
          /\ HeldSummary[key] # WrittenValue
          /\ call' = [op |-> "caller_writes", key |-> key, value |-> WrittenValue]
          /\ IF held.ret.id = "stats"
             THEN /\ stats' = [stats EXCEPT ![key] = WrittenValue]
                  /\ held' = held
             ELSE /\ held' = [held EXCEPT !.ret.items[key] = WrittenValue]
                  /\ stats' = stats
    /\ ret' = None
    /\ UNCHANGED << fs, patterns, opened, config, threads, calls >>

NextSummary == AnalyzeFile \/ GetSummary \/ Keep \/ CallerWrites \/ Return

SpecSummary == InitSummary /\ [][NextSummary]_vars

\* C30: the value get_summary returned is an independent snapshot: a later
\* analyze_file call leaves the dict the caller keeps as it was, and a write
\* of the caller in that dict lands there and leaves the engine's stats as
\* they were.
Thm_C30_SummaryIsIndependentSnapshot ==
    [][ (held.call.op = "get_summary" /\ held'.call.op = "get_summary") =>
           /\ (call = NoCall /\ call'.op = "analyze_file") => HeldSummary' = HeldSummary
           /\ (call = NoCall /\ call'.op = "caller_writes") =>
                 /\ stats' = stats
                 /\ HeldSummary'[call'.key] = call'.value
      ]_vars

\* A summary taken before any file was processed is still all zero but for
\* the key the caller has just written, after analyze_file has found issues.
Wit_C30_WriteAfterLaterAnalysis ==
    /\ held.call.op = "get_summary"
    /\ held.made = 0
    /\ call.op = "caller_writes"
    /\ call.key = "todos"
    /\ stats.issues_found > 0
    /\ stats.todos > 0
    /\ stats.todos # WrittenValue
    /\ HeldSummary = [ZeroStats EXCEPT !.todos = WrittenValue]

\* ------------------------------------------------------------------------
\* CleanupConfig.is_excluded: specification
\* ------------------------------------------------------------------------

PathNodeModules == <<"n", "o", "d", "e", "_", "m", "o", "d", "u", "l", "e", "s", "/", "t", "e", "s", "t", ".", "j", "s">>
PathVendor == <<"v", "e", "n", "d", "o", "r", "/", "p", "a", "c", "k", "a", "g", "e", ".", "p", "y">>
PathGitConfig == <<".", "g", "i", "t", "/", "c", "o", "n", "f", "i", "g">>
PathMyVendor == <<"m", "y", "-", "v", "e", "n", "d", "o", "r", "/", "x", ".", "p", "y">>
PathSrcMain == <<"s", "r", "c", "/", "m", "a", "i", "n", ".", "p", "y">>
PathMinJs == <<"a", "p", "p", ".", "m", "i", "n", ".", "j", "s">>
PathStarMinJs == <<"x", "*", ".", "m", "i", "n", ".", "j", "s">>
PathDotVendor == <<".", "/", "v", "e", "n", "d", "o", "r", "/", "a">>
PathVendorDir == <<"v", "e", "n", "d", "o", "r", "/">>

\* The paths is_excluded is asked about.
ExcludePaths ==
    { PathNodeModules, PathVendor, PathGitConfig, PathMyVendor, PathSrcMain, PathMinJs,
      PathStarMinJs, PathDotVendor, PathVendorDir }

\* The rules a user appends to config.exclude_patterns.
UserRules == { <<"m", "a", "i", "n">>, <<"s", "r", "c", "/">>, <<"*", ".", "p", "y">> }

\* Most rules a user appends.
MaxRules == 2

InitExclude ==
    /\ fs \in {CHOOSE d \in Disks : TRUE}
    /\ patterns = DefaultPatterns
    /\ stats = ZeroStats
    /\ opened = << >>
    /\ call = NoCall
    /\ ret = None
    /\ config = DefaultConfig
    /\ threads = << >>
    /\ held = NoHeld
    /\ calls = ZeroCalls

\* config.exclude_patterns.append(rule).
AddExcludePattern ==
    /\ call = NoCall
    /\ Len(config.exclude_patterns) < Len(exclude_patterns) + MaxRules
    /\ \E rule \in UserRules :
          /\ call' = [op |-> "add_exclude_pattern", rule |-> rule]
          /\ config' = [config EXCEPT !.exclude_patterns = Append(@, rule)]
    /\ ret' = None
    /\ UNCHANGED << fs, patterns, stats, opened, threads, held, calls >>

IsExcluded ==
    /\ call = NoCall
    /\ \E file_path \in ExcludePaths :
          /\ call' = [op |-> "is_excluded", file_path |-> file_path]
          /\ ret' = excluded_by(config.exclude_patterns, file_path)
    /\ UNCHANGED << fs, patterns, stats, opened, config, threads, held, calls >>

NextExclude == AddExcludePattern \/ IsExcluded \/ Return

SpecExclude == InitExclude /\ [][NextExclude]_vars

\* The rule is found, character for character, somewhere in the text.
OccursIn(rule, text) ==
    \E i \in 1..(Len(text) - Len(rule) + 1) : SubSeq(text, i, i + Len(rule) - 1) = rule

\* C24: is_excluded(path) is true exactly when some exclusion rule, seeded
\* or appended by the user, occurs as a literal substring of str(Path(path));
\* no glob is expanded: node_modules/test.js, vendor/package.py, .git/config
\* and a path under my-vendor/ are excluded, and under the seeded rules
\* src/main.py and app.min.js are not.
Thm_C24_ExcludedIffLiteralSubstring ==
    call.op = "is_excluded" =>
        /\ ret = \E k \in DOMAIN config.exclude_patterns :
                     OccursIn(config.exclude_patterns[k], path_str(call.file_path))
        /\ call.file_path \in {PathNodeModules, PathVendor, PathGitConfig, PathMyVendor} => ret
        /\ (config.exclude_patterns = exclude_patterns
              /\ call.file_path \in {PathSrcMain, PathMinJs}) => ~ret

\* With the rule "*.py" appended, is_excluded has said no for src/main.py:
\* the star is not expanded.
Wit_C24_StarRuleNotExpanded ==
    /\ call.op = "is_excluded"
    /\ call.file_path = PathSrcMain
    /\ \E k \in DOMAIN config.exclude_patterns : config.exclude_patterns[k] = <<"*", ".", "p", "y">>
    /\ ret = FALSE

\* ------------------------------------------------------------------------
\* CodeAnalyzer.find_unused_imports: specification
\* ------------------------------------------------------------------------

PathUpper == <<"A", ".", "P", "Y">>

\* The paths find_unused_imports is called on.
ImportPaths == {PathA, PathDot, PathUpper, PathB}

\* Two imports of which one is referenced through an attribute; an alias, a
\* dotted module and a from-import of which the alias is referenced; and a
\* text that does not parse.
TextSysUsed ==
    <<"i", "m", "p", "o", "r", "t", " ", "o", "s", "\n",
      "i", "m", "p", "o", "r", "t", " ", "s", "y", "s", "\n",
      "p", "r", "i", "n", "t", "(", "s", "y", "s", ".", "v", "e", "r", "s", "i", "o", "n", ")", "\n">>
TextAliases ==
    <<"i", "m", "p", "o", "r", "t", " ", "o", "s", " ", "a", "s", " ", "o", "\n",
      "i", "m", "p", "o", "r", "t", " ", "a", ".", "b", "\n",
      "f", "r", "o", "m", " ", "m", " ", "i", "m", "p", "o", "r", "t", " ", "x", "\n",
      "p", "r", "i", "n", "t", "(", "o", ")", "\n">>
TextBroken ==
    <<"i", "m", "p", "o", "r", "t", " ", "o", "s", "\n", "p", "r", "i", "n", "t", "(", "\n">>

ImportTexts == {TextSysUsed, TextAliases, TextBroken}

\* The disks find_unused_imports is run on: every path holds one of the
\* texts, but for at most MaxBad files that are missing, unreadable or
\* undecodable.
ImportDisks ==
    { [p \in ImportPaths |-> IF p \in DOMAIN bad
                             THEN BadFile(bad[p], text[p])
                             ELSE [exists |-> TRUE, readable |-> TRUE, content |-> text[p]]]
      : bad \in UNION { [B -> {"missing", "unreadable", "undecodable"}]
                        : B \in {X \in SUBSET ImportPaths : Cardinality(X) <= MaxBad} },
        text \in [ImportPaths -> ImportTexts] }

InitImports ==
    /\ fs \in ImportDisks
    /\ patterns = DefaultPatterns
    /\ stats = ZeroStats
    /\ opened = << >>
    /\ call = NoCall
    /\ ret = None
    /\ config = DefaultConfig
    /\ threads = << >>
    /\ held = NoHeld
    /\ calls = ZeroCalls

\* One call of CodeAnalyzer.find_unused_imports; seed is the string hashing
\* of the process, which orders list(unused).
FindUnusedImports ==
    /\ call = NoCall
    /\ \E file_path \in ImportPaths, seed \in Seeds :
          /\ call' = [op |-> "find_unused_imports", file_path |-> file_path, seed |-> seed]
          /\ ret' = find_unused_imports(fs, file_path, seed)
    /\ UNCHANGED << fs, patterns, stats, opened, config, threads, held, calls >>

NextImports == FindUnusedImports \/ Return

SpecImports == InitImports /\ [][NextImports]_vars

\* The name an alias of an import statement binds: the alias when there is
\* one, else the first segment of the dotted name (a from-import name has
\* one segment).
BoundName(alias) == IF alias.asname # None THEN alias.asname ELSE alias.name[1]

\* The names the import statements among the nodes bind, and the
\* identifiers the nodes reference.
BoundNames(N) ==
    UNION { { BoundName(N[i].names[a]) : a \in DOMAIN N[i].names }
            : i \in {j \in DOMAIN N : N[j].type \in {"Import", "ImportFrom"}} }
ReferencedNames(N) == { N[i].id : i \in {j \in DOMAIN N : N[j].type = "Name"} }

\* The elements of a list.
Elements(s) == { s[i] : i \in DOMAIN s }

\* The tree of the file the call was made on.
CalledTree == ast_parse(read_file(fs, call.file_path))

\* C25 as stated: on a python file find_unused_imports returns exactly the
\* bound import names minus the referenced identifiers, each once; for a
\* path that is not a python file, a file that cannot be read and a file
\* that does not parse it returns an empty list.
Orig_C25_BoundMinusReferenced ==
    call.op = "find_unused_imports" =>
        IF /\ detect_language(call.file_path) = "python"
           /\ can_read(fs, call.file_path)
           /\ CalledTree.ok
        THEN /\ Elements(ret) = BoundNames(CalledTree.nodes) \ ReferencedNames(CalledTree.nodes)
             /\ Len(ret) = Cardinality(Elements(ret))
        ELSE ret = << >>

\* ------------------------------------------------------------------------
\* The files on disk across the calls of the analyzer, the engine and run
\* ------------------------------------------------------------------------

InitFrame ==
    /\ fs \in Disks
    /\ patterns = DefaultPatterns
    /\ stats = ZeroStats
    /\ opened = << >>
    /\ call = NoCall
    /\ ret = None
    /\ config \in {DefaultConfig, [DefaultConfig EXCEPT !.auto_fix = TRUE]}
    /\ threads = << >>
    /\ held = NoHeld
    /\ calls = ZeroCalls

\* One call of CleanupCommand.run on a single file, all categories kept.
RunOneFile ==
    /\ call = NoCall
    /\ \E file_path \in Paths, unused \in BOOLEAN, test_mode \in BOOLEAN :
          RunCall([files |-> << file_path >>, all_files |-> FALSE], FALSE, FALSE, FALSE,
                  unused, test_mode, None, 0, CHOOSE w \in Walks(fs) : TRUE)

NextFrame ==
    \/ Analyze
    \/ AnalyzeFile
    \/ CleanupFile
    \/ FindDuplicates
    \/ FindUnusedImports
    \/ RunOneFile
    \/ Return

SpecFrame == InitFrame /\ [][NextFrame]_vars

\* C26: no call of analyze, analyze_file, cleanup_file (fix or not, auto_fix
\* on or off), find_duplicates, find_unused_imports or run changes a file on
\* disk: existence, permissions and content stay as they were.
Thm_C26_SourceNeverMutated ==
    [][fs' = fs]_vars

\* With auto_fix on, cleanup_file with fix set has returned issues for a
\* file that is there, after two files were processed: the fixing branch
\* was entered.
Wit_C26_FixRequestedWithIssues ==
    /\ config.auto_fix
    /\ call.op = "cleanup_file"
    /\ call.fix
    /\ "issues" \in DOMAIN ret
    /\ ret.issues # << >>
    /\ fs[call.file_path].exists
    /\ stats.files_processed >= 2

\* ------------------------------------------------------------------------
\* CodeAnalyzer.analyze called again on a file
\* ------------------------------------------------------------------------

\* One call of CodeAnalyzer.analyze, counted among the calls made.
AnalyzeCounted ==
    /\ call = NoCall
    /\ calls.made < MaxCalls
    /\ calls' = [calls EXCEPT !.made = @ + 1]
    /\ \E file_path \in Paths : AnalyzeCall(file_path)

\* One call of PatternMatcher.find_patterns on the text of a file.
FindPatternsInFile ==
    /\ call = NoCall
    /\ \E file_path \in {q \in Paths : can_read(fs, q)},
          pattern_type \in ScanTypes, language \in ScanLanguages :
          FindPatternsCall(read_file(fs, file_path), pattern_type, language)

\* The caller keeps the result analyze returned.
KeepAnalysis == call.op = "analyze" /\ Keep

NextRepeat == AnalyzeCounted \/ FindPatternsInFile \/ KeepAnalysis \/ Return

SpecRepeat == InitRun /\ [][NextRepeat]_vars

\* The caller keeps the result of an earlier analyze of the file now
\* analyzed.
AnalyzedBefore == held.call.op = "analyze" /\ held.call.file_path = call.file_path

NumWorkers == 2

\* A thread about to call analyze_file on file_path.
Worker(file_path) ==
    [file |-> file_path, pc |-> "call", pending |-> << >>, loaded |-> 0, result |-> None]

\* The increments analyze_file makes to self.stats for the issues it found,
\* in the order of the code: debug_statements once for each debug match
\* (core.py 93), todos once for each todo match (104), files_processed (106)
\* and issues_found by the number of issues (107).
stat_increments(issues) ==
    [i \in DOMAIN issues |->
        << IF issues[i].type = "debug" THEN "debug_statements" ELSE "todos", 1 >>]
    \o << <<"files_processed", 1>>, <<"issues_found", Len(issues)>> >>

\* The increments of a call that returns results: none when it is skipped
\* (core.py 67-68) or open or read fails (109-110).
increments_of(results) ==
    IF "skipped" \in DOMAIN results \/ "error" \in DOMAIN results
    THEN << >>
    ELSE stat_increments(results.issues)

\* Where a thread is with its increments left.
pc_after(pending) == IF pending = << >> THEN "return" ELSE "load"

InitWorkers ==
    /\ fs \in Disks
    /\ patterns = DefaultPatterns
    /\ stats = ZeroStats
    /\ opened = << >>
    /\ call = NoCall
    /\ ret = None
    /\ config = DefaultConfig
    /\ threads \in { [w \in 1..NumWorkers |-> Worker(f[w])] :
                       f \in { g \in [1..NumWorkers -> Paths] :
                                  \A v, w \in 1..NumWorkers : v # w => g[v] # g[w] } }
    /\ held = NoHeld
    /\ calls = ZeroCalls

\* Thread w runs analyze_file up to its first write to self.stats: the
\* exclusion check, the read and the scans work on locals of the call.
WorkerScan(w) ==
    /\ threads[w].pc = "call"
    /\ threads' = [threads EXCEPT
                      ![w].result = analyze_file(config, fs, ZeroStats, threads[w].file).results,
                      ![w].pending = increments_of(analyze_file(config, fs, ZeroStats,
                                                                threads[w].file).results),
                      ![w].pc = pc_after(increments_of(analyze_file(config, fs, ZeroStats,
                                                                    threads[w].file).results))]
    /\ UNCHANGED << fs, patterns, stats, opened, call, ret, config, held, calls >>

\* Thread w reads self.stats[key] for its next `self.stats[key] += n`.
WorkerLoad(w) ==
    /\ threads[w].pc = "load"
    /\ threads' = [threads EXCEPT ![w].loaded = stats[Head(threads[w].pending)[1]],
                                  ![w].pc = "store"]
    /\ UNCHANGED << fs, patterns, stats, opened, call, ret, config, held, calls >>

\* Thread w stores the value it read plus n in self.stats[key].
WorkerStore(w) ==
    /\ threads[w].pc = "store"
    /\ stats' = [stats EXCEPT ![Head(threads[w].pending)[1]] =
                                  threads[w].loaded + Head(threads[w].pending)[2]]
    /\ threads' = [threads EXCEPT ![w].pending = Tail(@),
                                  ![w].pc = pc_after(Tail(threads[w].pending))]
    /\ UNCHANGED << fs, patterns, opened, call, ret, config, held, calls >>

\* The call of thread w returns.
WorkerReturn(w) ==
    /\ threads[w].pc = "return"
    /\ threads' = [threads EXCEPT ![w].pc = "done"]
    /\ calls' = [made |-> calls.made + 1,
                 succeeded |-> calls.succeeded
                               + ended_in_result([op |-> "analyze_file"], threads[w].result)]
    /\ UNCHANGED << fs, patterns, stats, opened, call, ret, config, held >>

NextWorkers ==
    \E w \in DOMAIN threads :
        WorkerScan(w) \/ WorkerLoad(w) \/ WorkerStore(w) \/ WorkerReturn(w)

SpecWorkers == InitWorkers /\ [][NextWorkers]_vars

\* Every thread has returned from its call.
AllReturned == threads # << >> /\ \A w \in DOMAIN threads : threads[w].pc = "done"

\* C23 as stated: with several threads calling analyze_file on distinct
\* files of one engine, no increment is lost: once all calls have returned,
\* files_processed is the number of calls that ended in a result and
\* issues_found is the sum of their issue counts.
Orig_C23_NoLostUpdate ==
    AllReturned =>
        /\ stats.files_processed = calls.succeeded
        /\ stats.issues_found
              = SeqSum([w \in DOMAIN threads |->
                           IF increments_of(threads[w].result) = << >>
                           THEN 0
                           ELSE Len(threads[w].result.issues)])

=============================================================================
